---- MODULE Spec2Model ----
(***************************************************************************)
(* Verification model of the NSX-V3 common plugin                          *)
(* (vmware_nsx/plugins/common_v3/plugin.py, class NsxPluginV3Base).        *)
(*                                                                         *)
(* The module holds state machines over disjoint groups of variables:      *)
(*   SpecGw    router gateway update planning (_get_update_router_gw_...)  *)
(*   SpecGwCheck  router gateway update validation (_validate_router_gw)   *)
(*   SpecNet, SpecNetConc, SpecSeg                                         *)
(*             provider network creation and VLAN segment allocation       *)
(*   SpecPort, SpecPortOwner                                               *)
(*             port create / update / revert security preprocessing        *)
(*   SpecGwUpdate  gateway update against the router's interfaces          *)
(*   SpecDhcp, SpecDhcpFair, SpecDhcpDeleting                              *)
(*             native DHCP enable / disable under the per-network lock     *)
(* and two more over the housekeeper job of the NSX-V3 plugin              *)
(* (housekeeper/orphaned_firewall_section.py) and the quantum API client   *)
(* (quantum/client.py):                                                    *)
(*   SpecHk    runs of OrphanedFirewallSectionJob                          *)
(*   SpecClient  calls of the api_call methods of Client                   *)
(* Each specification leaves the variables of the other groups unchanged.  *)
(***************************************************************************)
EXTENDS Integers, Sequences, FiniteSets, TLC

VARIABLES
    \* ---- native DHCP group
    dproc,       \* per API worker: its _create_subnet or delete_subnet call
    netLocks,    \* lock name -> the worker that holds it, 0 when free
    dhcpDb,      \* subnet, DHCP service binding, DHCP port and mapping rows
    nsxBackend,  \* DHCP servers and logical ports on the backend
    nativeDhcp,  \* _has_native_dhcp_metadata()
    calls,       \* number of _create_subnet and delete_subnet calls so far
    faults,      \* number of store and backend calls that failed so far
    \* ---- port group
    port,        \* the rows of the port in the store
    portEnv,     \* the port's network and vnic type, as the calls read them
    portOp,      \* the last create or update of the port and how it ended
    \* ---- gateway group
    gwOld,       \* (tier0, addr, snat) of the router before the last update
    gwNew,       \* (tier0, addr, snat) of the router now
    lbExist,     \* a load balancer is attached to the router ("True"/"False")
    fwExist,     \* a firewall is attached to the router ("True"/"False")
    gwActions,   \* dictionary returned by the last _get_update_router_gw_actions
    gwCheck,     \* the last _validate_router_gw call and how it ended
    gwUpdate,    \* the last _validate_update_router_gw call and how it ended
    \* ---- provider network group
    netVlans,    \* self._network_vlans: physical network -> list of (min, max)
    ensAllowed,  \* self._allow_ens_networks()
    overlayTzMode, \* host switch mode of the default overlay transport zone
    bindings,    \* rows of the network binding table
    netCount,    \* number of networks created so far
    segLocks,    \* physical networks whose allocate+persist section is running
    npc,         \* per create_network call: "idle", "validated" or "failed"
    nreq,        \* per call: the network_data of the request
    nres,        \* per call: what _validate_provider_create returned or raised
    \* ---- housekeeper group
    hkSections,  \* the orphaned firewall sections on the backend
    hkRun,       \* the last run of OrphanedFirewallSectionJob and its result
    \* ---- API client group
    client,      \* format and tenant of the quantum Client
    clCall       \* the last call of an api_call method and how it ended

gwVars == <<gwOld, gwNew, lbExist, fwExist, gwActions, gwCheck, gwUpdate>>

netVars == <<netVlans, ensAllowed, overlayTzMode, bindings, netCount, segLocks, npc, nreq, nres>>

portVars == <<port, portEnv, portOp>>

dhcpVars == <<dproc, netLocks, dhcpDb, nsxBackend, nativeDhcp, calls, faults>>

hkVars == <<hkSections, hkRun>>

clVars == <<client, clCall>>

vars == <<gwVars, netVars, portVars, dhcpVars, hkVars, clVars>>

(***************************************************************************)
(* Python values of the gateway planner.  Every value is a string so that  *)
(* `and`, `or` and `not` can be modelled with Python's operand-returning   *)
(* semantics: None is "None", the booleans are "True" and "False", and     *)
(* every other string is a (non-empty, hence truthy) identifier.           *)
(***************************************************************************)
None == "None"

Truthy(x) == x \notin {"None", "False", ""}

PyBool(b) == IF b THEN "True" ELSE "False"

PyAnd(a, b) == IF Truthy(a) THEN b ELSE a

PyOr(a, b) == IF Truthy(a) THEN a ELSE b

PyNot(a) == PyBool(~Truthy(a))

PyNe(a, b) == PyBool(a # b)

Tier0Ids == {None, "T0-A", "T0-B"}

GwAddrs == {None, "10.0.0.5", "10.0.0.6"}

PyBools == {"True", "False"}

GwStates == [tier0 : Tier0Ids, addr : GwAddrs, snat : PyBools]

NoGw == [tier0 |-> None, addr |-> None, snat |-> "True"]

\* plugin.py:959-961
RemoveRouterLinkPort(org_tier0_uuid, new_tier0_uuid) ==
    PyAnd(org_tier0_uuid,
          PyOr(PyNot(new_tier0_uuid), PyNe(org_tier0_uuid, new_tier0_uuid)))

\* a slip that drops "or not new_enable_snat" from the condition
RemoveSnatRulesAddrOnly(org_enable_snat, orgaddr, new_enable_snat, newaddr) ==
    PyAnd(PyAnd(org_enable_snat, orgaddr), PyNe(newaddr, orgaddr))

\* plugin.py:965-967
RemoveSnatRules(org_enable_snat, orgaddr, new_enable_snat, newaddr) ==
    PyAnd(PyAnd(org_enable_snat, orgaddr),
          PyOr(PyNe(newaddr, orgaddr), PyNot(new_enable_snat)))

\* plugin.py:970-972
RemoveNoDnatRules(org_enable_snat, orgaddr, new_enable_snat, newaddr) ==
    PyAnd(PyAnd(orgaddr, org_enable_snat),
          PyOr(PyNot(newaddr), PyNot(new_enable_snat)))

\* plugin.py:976-978
RevocateBgpAnnounce(org_enable_snat, org_tier0_uuid, new_enable_snat, new_tier0_uuid) ==
    PyAnd(PyAnd(PyNot(org_enable_snat), org_tier0_uuid),
          PyOr(PyNe(new_tier0_uuid, org_tier0_uuid), new_enable_snat))

\* plugin.py:982-984
AddRouterLinkPort(org_tier0_uuid, new_tier0_uuid) ==
    PyAnd(new_tier0_uuid,
          PyOr(PyNot(org_tier0_uuid), PyNe(org_tier0_uuid, new_tier0_uuid)))

\* a slip that adds the SNAT rules only when SNAT gets enabled, not when the
\* gateway address changes
AddSnatRulesOnEnableOnly(org_enable_snat, orgaddr, new_enable_snat, newaddr) ==
    PyAnd(PyAnd(new_enable_snat, newaddr), PyNot(org_enable_snat))

\* plugin.py:988-990
AddSnatRules(org_enable_snat, orgaddr, new_enable_snat, newaddr) ==
    PyAnd(PyAnd(new_enable_snat, newaddr),
          PyOr(PyNe(newaddr, orgaddr), PyNot(org_enable_snat)))

\* plugin.py:994-996
AddNoDnatRules(org_enable_snat, orgaddr, new_enable_snat, newaddr) ==
    PyAnd(PyAnd(new_enable_snat, newaddr),
          PyOr(PyNot(orgaddr), PyNot(org_enable_snat)))

\* plugin.py:1000-1002
BgpAnnounce(org_enable_snat, org_tier0_uuid, new_enable_snat, new_tier0_uuid) ==
    PyAnd(PyAnd(PyNot(new_enable_snat), new_tier0_uuid),
          PyOr(PyNe(new_tier0_uuid, org_tier0_uuid), PyNot(org_enable_snat)))

\* plugin.py:1006-1007
AdvertiseRouteNatFlag(new_enable_snat) ==
    IF Truthy(new_enable_snat) THEN "True" ELSE "False"

\* plugin.py:1008-1009
AdvertiseRouteConnectedFlag(new_enable_snat) ==
    IF Truthy(PyNot(new_enable_snat)) THEN "True" ELSE "False"

\* plugin.py:1015-1022
AddServiceRouter(org_enable_snat, orgaddr, new_enable_snat, newaddr, lb_exist, fw_exist) ==
    LET real_new_enable_snat == PyAnd(new_enable_snat, newaddr)
        real_org_enable_snat == PyAnd(org_enable_snat, orgaddr)
    IN  PyAnd(PyOr(PyAnd(real_new_enable_snat, PyNot(real_org_enable_snat)),
                   PyAnd(PyAnd(real_new_enable_snat, PyNot(orgaddr)),
                         newaddr)),
              PyNot(PyOr(fw_exist, lb_exist)))

\* a slip that looks at the firewall only and forgets the load balancer
RemoveServiceRouterFirewallOnly(org_enable_snat, orgaddr, new_enable_snat, newaddr, lb_exist, fw_exist) ==
    LET real_new_enable_snat == PyAnd(new_enable_snat, newaddr)
        real_org_enable_snat == PyAnd(org_enable_snat, orgaddr)
    IN  PyAnd(PyOr(PyAnd(PyNot(real_new_enable_snat), real_org_enable_snat),
                   PyAnd(orgaddr, PyNot(newaddr))),
              PyNot(fw_exist))

\* plugin.py:1015-1025
RemoveServiceRouter(org_enable_snat, orgaddr, new_enable_snat, newaddr, lb_exist, fw_exist) ==
    LET real_new_enable_snat == PyAnd(new_enable_snat, newaddr)
        real_org_enable_snat == PyAnd(org_enable_snat, orgaddr)
    IN  PyAnd(PyOr(PyAnd(PyNot(real_new_enable_snat), real_org_enable_snat),
                   PyAnd(orgaddr, PyNot(newaddr))),
              PyNot(PyOr(fw_exist, lb_exist)))

\* plugin.py:949-1027
GetUpdateRouterGwActions(org_tier0_uuid, orgaddr, org_enable_snat, new_tier0_uuid, newaddr, new_enable_snat, lb_exist, fw_exist) ==
    [remove_router_link_port |->
        RemoveRouterLinkPort(org_tier0_uuid, new_tier0_uuid),
     remove_snat_rules |->
        RemoveSnatRules(org_enable_snat, orgaddr, new_enable_snat, newaddr),
     remove_no_dnat_rules |->
        RemoveNoDnatRules(org_enable_snat, orgaddr, new_enable_snat, newaddr),
     revocate_bgp_announce |->
        RevocateBgpAnnounce(org_enable_snat, org_tier0_uuid,
                            new_enable_snat, new_tier0_uuid),
     add_router_link_port |->
        AddRouterLinkPort(org_tier0_uuid, new_tier0_uuid),
     add_snat_rules |->
        AddSnatRules(org_enable_snat, orgaddr, new_enable_snat, newaddr),
     add_no_dnat_rules |->
        AddNoDnatRules(org_enable_snat, orgaddr, new_enable_snat, newaddr),
     bgp_announce |->
        BgpAnnounce(org_enable_snat, org_tier0_uuid,
                    new_enable_snat, new_tier0_uuid),
     advertise_route_nat_flag |-> AdvertiseRouteNatFlag(new_enable_snat),
     advertise_route_connected_flag |->
        AdvertiseRouteConnectedFlag(new_enable_snat),
     add_service_router |->
        AddServiceRouter(org_enable_snat, orgaddr, new_enable_snat, newaddr,
                         lb_exist, fw_exist),
     remove_service_router |->
        RemoveServiceRouter(org_enable_snat, orgaddr, new_enable_snat,
                            newaddr, lb_exist, fw_exist)]

NoActions == GetUpdateRouterGwActions(None, None, "True", None, None, "True",
                                      "False", "False")

Routers == {"r1", "r2"}

\* the gateway info of a router update: None, or a dictionary with some of
\* the keys network_id and enable_snat; enable_snat is what
\* info.get('enable_snat') returns, None without the key
GwInfos ==
    {[given |-> FALSE, keys |-> {}, enable_snat |-> None]} \cup
    {i \in [given : {TRUE}, keys : SUBSET {"network_id", "enable_snat"}, enable_snat : PyBools \cup {None}] :
        "enable_snat" \notin i.keys => i.enable_snat = None}

\* plugin.py:939-947 without the test "info.get('enable_snat') is False"
ValidateRouterGwAnySnatChange(info, org_enable_snat, has_floating_ips) ==
    IF /\ info.given /\ info.keys # {}
       /\ "enable_snat" \in info.keys
       /\ org_enable_snat # info.enable_snat
       /\ has_floating_ips
    THEN "InvalidInput"
    ELSE "ok"

\* plugin.py:939-947; has_floating_ips is what
\* router_gw_port_has_floating_ips(context, router_id) returns
ValidateRouterGw(info, org_enable_snat, has_floating_ips) ==
    IF /\ info.given /\ info.keys # {}
       /\ "enable_snat" \in info.keys
       /\ org_enable_snat # info.enable_snat
       /\ info.enable_snat = "False"
       /\ has_floating_ips
    THEN "InvalidInput"
    ELSE "ok"

MaxRouterPorts == 2

\* what _get_router_interfaces returns (plugin.py:1030): the interface
\* ports of the router in the order of the store, each on an overlay or on
\* a VLAN backed network (_is_overlay_network) and with or without fixed IPs
RouterPortLists ==
    UNION {[1..n -> [overlay : BOOLEAN, has_fixed_ips : BOOLEAN]] : n \in 0..MaxRouterPorts}

\* plugin.py:1029-1046, for gw_info a dictionary.  For every port in turn:
\* without SNAT (gw_info.get('enable_snat', cfg.CONF.enable_snat_by_default)
\* at 1034-1035) the address scope of each fixed IP is validated against
\* gw_info['network_id'], a KeyError when the dictionary has no such key;
\* then an empty gw_info on a port of a VLAN backed network raises
\* InvalidInput (1042-1046)
RECURSIVE ValidateUpdateRouterGw(_, _, _, _)
ValidateUpdateRouterGw(router_ports, gw_info, enable_snat_by_default, address_scope_ok) ==
    IF router_ports = <<>> THEN "ok"
    ELSE LET router_port == Head(router_ports)
             enable_snat == IF "enable_snat" \in gw_info.keys THEN gw_info.enable_snat ELSE PyBool(enable_snat_by_default)
             scope == IF Truthy(enable_snat) \/ ~router_port.has_fixed_ips THEN "ok"
                      ELSE IF "network_id" \notin gw_info.keys THEN "KeyError"
                      ELSE IF ~address_scope_ok THEN "AddressScopeMismatch"
                      ELSE "ok"
         IN  IF scope # "ok" THEN scope
             ELSE IF gw_info.keys = {} /\ ~router_port.overlay THEN "InvalidInput"
             ELSE ValidateUpdateRouterGw(Tail(router_ports), gw_info, enable_snat_by_default, address_scope_ok)

InitGw ==
    /\ gwOld = NoGw
    /\ gwNew = NoGw
    /\ lbExist = "False"
    /\ fwExist = "False"
    /\ gwActions = NoActions
    /\ gwCheck = [router_id |-> "r1", info |-> [given |-> FALSE, keys |-> {}, enable_snat |-> None], org_enable_snat |-> "True", floating_ips |-> {}, outcome |-> "none"]
    /\ gwUpdate = [router_ports |-> <<>>, gw_info |-> [given |-> TRUE, keys |-> {}, enable_snat |-> None], enable_snat_by_default |-> TRUE, outcome |-> "none"]

\* A router gateway update: the router's current gateway state becomes the
\* old one, the request supplies the new one, and the planner is run on both.
UpdateRouterGw ==
    \E new \in GwStates, lb \in PyBools, fw \in PyBools :
        /\ gwOld' = gwNew
        /\ gwNew' = new
        /\ lbExist' = lb
        /\ fwExist' = fw
        /\ gwActions' = GetUpdateRouterGwActions(
                            gwNew.tier0, gwNew.addr, gwNew.snat,
                            new.tier0, new.addr, new.snat, lb, fw)
        /\ UNCHANGED <<gwCheck, gwUpdate>>

\* a call of _validate_router_gw (plugin.py:939-947) for a router of the
\* store, whose gateway ports have floating IPs for the routers floating_ips
ValidateRouterGwCall ==
    \E router_id \in Routers, info \in GwInfos, org_enable_snat \in PyBools, floating_ips \in SUBSET Routers :
        /\ gwCheck' = [router_id |-> router_id, info |-> info, org_enable_snat |-> org_enable_snat, floating_ips |-> floating_ips,
                       outcome |-> ValidateRouterGw(info, org_enable_snat, router_id \in floating_ips)]
        /\ UNCHANGED <<gwOld, gwNew, lbExist, fwExist, gwActions, gwUpdate>>

\* a call of _validate_update_router_gw (plugin.py:1029-1046) with a
\* gateway info dictionary, under either setting of enable_snat_by_default
ValidateUpdateRouterGwCall ==
    \E router_ports \in RouterPortLists, gw_info \in {i \in GwInfos : i.given}, enable_snat_by_default \in BOOLEAN, address_scope_ok \in BOOLEAN :
        /\ gwUpdate' = [router_ports |-> router_ports, gw_info |-> gw_info, enable_snat_by_default |-> enable_snat_by_default,
                        outcome |-> ValidateUpdateRouterGw(router_ports, gw_info, enable_snat_by_default, address_scope_ok)]
        /\ UNCHANGED <<gwOld, gwNew, lbExist, fwExist, gwActions, gwCheck>>

(***************************************************************************)
(* Claims on the gateway planner                                           *)
(***************************************************************************)
IsSet(x) == x # None

SnatOn(g) == g.snat = "True"

BackActions == GetUpdateRouterGwActions(gwNew.tier0, gwNew.addr, gwNew.snat, gwOld.tier0, gwOld.addr, gwOld.snat, lbExist, fwExist)

\* the flags of an action set that are true
TrueFlags(a) == {k \in DOMAIN a : Truthy(a[k])}

\* SNAT is in effect: the flag is on and the gateway has an address
EffectiveSnat(g) == SnatOn(g) /\ IsSet(g.addr)

ServiceExists == Truthy(lbExist) \/ Truthy(fwExist)

\* the flags that describe the new state (new.snat_enabled and its negation)
\* and not a step from old to new
AdvertiseFlags == {"advertise_route_nat_flag", "advertise_route_connected_flag"}

\* C11: for every gateway state s and every load balancer / firewall
\* existence, _get_update_router_gw_actions called with old = new = s
\* returns an action set in which every flag is false.  The two advertise
\* flags, one of which is true in every action set, are left aside: no Add,
\* Remove, announce or revoke flag is true.
C11_NoChangePlansNothing ==
    gwOld = gwNew => TrueFlags(gwActions) \subseteq AdvertiseFlags

\* C12: for every (old, new) with the same load balancer / firewall
\* existence the action set of new->old is the inverse of the action set of
\* old->new: for the router link port, the SNAT rules, the No-DNAT rules,
\* BGP announce / revoke and the service router, the Add flag of one
\* transition has the truth value of the Remove flag of the other.
C12_ReverseTransitionIsInverse ==
    LET Same(x, y) == Truthy(x) <=> Truthy(y)
        fwd == gwActions
        back == BackActions
    IN  /\ Same(fwd.add_router_link_port, back.remove_router_link_port)
        /\ Same(fwd.remove_router_link_port, back.add_router_link_port)
        /\ Same(fwd.add_snat_rules, back.remove_snat_rules)
        /\ Same(fwd.remove_snat_rules, back.add_snat_rules)
        /\ Same(fwd.add_no_dnat_rules, back.remove_no_dnat_rules)
        /\ Same(fwd.remove_no_dnat_rules, back.add_no_dnat_rules)
        /\ Same(fwd.bgp_announce, back.revocate_bgp_announce)
        /\ Same(fwd.revocate_bgp_announce, back.bgp_announce)
        /\ Same(fwd.add_service_router, back.remove_service_router)
        /\ Same(fwd.remove_service_router, back.add_service_router)

\* C13: add_service_router is true exactly when effective SNAT (flag on and
\* address present) is inactive in old and active in new and neither a load
\* balancer nor a firewall exists; remove_service_router is true exactly
\* when effective SNAT is active in old and inactive in new and neither
\* exists, also when an address is added or removed while the snat flag
\* keeps its value.
C13_ServiceRouterFollowsEffectiveSnat ==
    /\ Truthy(gwActions.add_service_router) <=>
          (~EffectiveSnat(gwOld) /\ EffectiveSnat(gwNew) /\ ~ServiceExists)
    /\ Truthy(gwActions.remove_service_router) <=>
          (EffectiveSnat(gwOld) /\ ~EffectiveSnat(gwNew) /\ ~ServiceExists)

\* C14: for every (old, new), if a load balancer or a firewall exists on the
\* router, remove_service_router is false and add_service_router is false.
C14_ServicesKeepServiceRouter ==
    ServiceExists =>
        /\ ~Truthy(gwActions.remove_service_router)
        /\ ~Truthy(gwActions.add_service_router)

\* a load balancer alone exists while the update takes the gateway address
\* away from a router whose SNAT was in effect
C14_Witness ==
    /\ lbExist = "True" /\ fwExist = "False"
    /\ EffectiveSnat(gwOld) /\ ~IsSet(gwNew.addr)
    /\ Truthy(gwActions.remove_snat_rules)
    /\ ~Truthy(gwActions.remove_service_router)

ScenarioBOld == [tier0 |-> "T0-A", addr |-> "10.0.0.5", snat |-> "True"]

ScenarioBNew == [tier0 |-> "T0-B", addr |-> "10.0.0.6", snat |-> "True"]

\* C15: for old = {tier0 T0-A, address 10.0.0.5, snat true} and new =
\* {tier0 T0-B, address 10.0.0.6, snat true} the link port and the SNAT
\* rules are removed and added, the No-DNAT flags are false, and the flags
\* that are true are exactly those four together with
\* advertise_route_nat_flag, which is new.snat_enabled.
C15_ScenarioBFlags ==
    (gwOld = ScenarioBOld /\ gwNew = ScenarioBNew) =>
        TrueFlags(gwActions) = {"remove_router_link_port", "add_router_link_port", "remove_snat_rules", "add_snat_rules", "advertise_route_nat_flag"}

\* C15 as stated: the flags that are true are exactly the four Add / Remove
\* flags of the link port and of the SNAT rules
C15_ScenarioBFlagsExactlyFour ==
    (gwOld = ScenarioBOld /\ gwNew = ScenarioBNew) =>
        TrueFlags(gwActions) = {"remove_router_link_port", "add_router_link_port", "remove_snat_rules", "add_snat_rules"}

\* the planner has run on scenario B
C15_Witness ==
    /\ gwOld = ScenarioBOld /\ gwNew = ScenarioBNew
    /\ Truthy(gwActions.add_snat_rules)
    /\ ~Truthy(gwActions.add_no_dnat_rules)

\* the update sets enable_snat to False
SetsSnatFalse(info) == info.given /\ "enable_snat" \in info.keys /\ info.enable_snat = "False"

\* C30: _validate_router_gw rejects a gateway update (InvalidInput) exactly
\* when the update sets enable_snat to False, the current enable_snat of the
\* router differs from it, and the gateway port of the router has a floating
\* IP; it rejects no other update.
C30_SnatDisableRejectedIffFloatingIps ==
    gwCheck.outcome # "none" =>
        (gwCheck.outcome = "InvalidInput" <=>
            /\ SetsSnatFalse(gwCheck.info)
            /\ gwCheck.org_enable_snat # "False"
            /\ gwCheck.router_id \in gwCheck.floating_ips)

\* SNAT is switched off on a router with floating IPs and the update is
\* rejected, while another router has none
C30_Witness ==
    /\ gwCheck.outcome = "InvalidInput"
    /\ gwCheck.org_enable_snat = "True" /\ gwCheck.info.enable_snat = "False"
    /\ gwCheck.floating_ips = {gwCheck.router_id}

\* the router of the call has an interface on a VLAN backed network
HasVlanInterface(router_ports) == \E k \in DOMAIN router_ports : ~router_ports[k].overlay

\* C31: _validate_update_router_gw rejects with InvalidInput every update
\* with an empty gateway info on a router that has an interface on a VLAN
\* backed network, and accepts the removal when every interface of the
\* router is on an overlay network or the router has none.
C31_GatewayRemovalNeedsOverlayOnly ==
    (gwUpdate.outcome # "none" /\ gwUpdate.gw_info.keys = {}) =>
        gwUpdate.outcome = IF HasVlanInterface(gwUpdate.router_ports) THEN "InvalidInput" ELSE "ok"

(***************************************************************************)
(* Provider networks: _generate_segment_id and _validate_provider_create   *)
(***************************************************************************)
\* neutron_lib constants.MIN_VLAN_TAG
MIN_VLAN_TAG == 1

\* neutron_lib constants.MAX_VLAN_TAG is 4094; the model scales the tag space
\* down so that it can be exhausted by a few networks
MAX_VLAN_TAG == 3

\* at most this many networks are created
MaxNetworks == 2

\* create_network calls that may run concurrently
NetProcs == {1, 2}

\* vlan_id None (segmentation id not set)
PyNoneVlan == -1

\* the string '0' assigned to vlan_id for flat networks (truthy, unlike 0)
StrZero == -2

VlanTruthy(v) == v # PyNoneVlan /\ v # 0

\* the integer column the binding table stores for a vlan_id
DbVlan(v) == IF v = PyNoneVlan \/ v = StrZero THEN 0 ELSE v

NetTypes == {None, "flat", "vlan", "geneve", "nsx-net", "local"}

PhysicalNets == {None, "tzv1", "tze1", "ls1", "lse1", "nope"}

SegmentationIds == {PyNoneVlan} \cup (0 .. (MAX_VLAN_TAG + 1))

NetRequests == [network_type : NetTypes, physical_network : PhysicalNets, segmentation_id : SegmentationIds, qos_policy_id : BOOLEAN, transparent_vlan : BOOLEAN]

\* the requests of type vlan on a VLAN transport zone
VlanRequests == {r \in NetRequests : r.network_type = "vlan" /\ r.physical_network \in {None, "tzv1", "tze1"} /\ ~r.qos_policy_id /\ ~r.transparent_vlan}

default_vlan_tz_uuid == "tzv1"

default_overlay_tz_uuid == "tzo1"

\* nsxlib_tz.get_transport_type: the backend's transport zones
GetTransportType(tz) ==
    CASE tz \in {"tzv1", "tze1"} -> "VLAN"
      [] tz = "tzo1" -> "OVERLAY"
      [] OTHER -> "ResourceNotFound"

\* nsxlib_tz.get_host_switch_mode: tze1 is a VLAN zone in ENS mode, the
\* default overlay zone is in the mode the backend was set up with
GetHostSwitchMode(tz) ==
    IF tz = "tze1" THEN "ENS"
    ELSE IF tz = default_overlay_tz_uuid THEN overlayTzMode
    ELSE "STANDARD"

\* nsxlib_network.get followed by _get_nsx_net_tz_id: the backend's switches
GetNsxNetTzId(ls) ==
    CASE ls = "ls1" -> "tzo1"
      [] ls = "lse1" -> "tze1"
      [] OTHER -> "ResourceNotFound"

\* the configurations of network_vlan_ranges for the default VLAN zone: none,
\* or two ranges with a gap; the other zones have no configured range
VlanRangeChoices == {<<>>, <<<<1, 1>>, <<3, 3>>>>}

\* nsx_db.get_network_bindings_by_phy_uuid
GetNetworkBindingsByPhyUuid(store, phy_uuid) ==
    {b \in store : b.phy_uuid = phy_uuid}

\* nsx_db.get_network_bindings_by_vlanid_and_physical_net
GetNetworkBindingsByVlanidAndPhysicalNet(store, vlan_id, phy_uuid) ==
    {b \in store : b.vlan_id = vlan_id /\ b.phy_uuid = phy_uuid}

\* Python's set ^ set
SymDiff(A, B) == (A \ B) \cup (B \ A)

\* a slip that ignores the configured ranges of the physical network
VlanIdsWholeRange(cfg, physical_network) ==
    MIN_VLAN_TAG .. MAX_VLAN_TAG

\* plugin.py:664-672
VlanIds(cfg, physical_network) ==
    LET vlan_ranges == IF physical_network \in DOMAIN cfg THEN cfg[physical_network] ELSE <<>>
    IN  IF vlan_ranges # <<>>
        THEN UNION {vlan_ranges[i][1] .. vlan_ranges[i][2] : i \in DOMAIN vlan_ranges}
        ELSE MIN_VLAN_TAG .. MAX_VLAN_TAG

\* a slip that forgets the "if binding.vlan_id in vlan_ids" filter
UsedIdsUnfiltered(store, cfg, physical_network) ==
    {b.vlan_id : b \in GetNetworkBindingsByPhyUuid(store, physical_network)}

\* plugin.py:673-674
UsedIdsInRange(store, cfg, physical_network) ==
    {b.vlan_id : b \in {x \in GetNetworkBindingsByPhyUuid(store, physical_network) : x.vlan_id \in VlanIds(cfg, physical_network)}}

\* a slip that offers every candidate id, bound or not
FreeIdsIgnoringUsed(store, cfg, physical_network) ==
    VlanIds(cfg, physical_network)

\* plugin.py:675
FreeIds(store, cfg, physical_network) ==
    SymDiff(VlanIds(cfg, physical_network), UsedIdsInRange(store, cfg, physical_network))

\* plugin.py:661-679.  free_ids[0] is the first element of a Python set in
\* its iteration order, which the language leaves open: any free id.
GenerateSegmentId(store, cfg, physical_network) ==
    IF Cardinality(FreeIds(store, cfg, physical_network)) = 0
    THEN {[raise |-> "NoNetworkAvailable", tag |-> PyNoneVlan]}
    ELSE {[raise |-> "none", tag |-> t] : t \in FreeIds(store, cfg, physical_network)}

\* neutron_lib plugin_utils.is_valid_vlan_tag
IsValidVlanTag(vlan) == MIN_VLAN_TAG <= vlan /\ vlan <= MAX_VLAN_TAG

Raised(kind, msg) ==
    [status |-> kind, err_msg |-> msg, is_provider_net |-> FALSE, net_type |-> None, physical_net |-> None, vlan_id |-> PyNoneVlan, switch_mode |-> "STANDARD", generated |-> FALSE]

\* plugin.py:716-795: the branch on the network type.  Each element of the
\* result is one way the branch can end.
ProviderTypeBranch(req, store, cfg, is_provider_net, physical_net, vlan_id) ==
    LET net_type == req.network_type
        base == [raise |-> "none", err_msg |-> None, net_type |-> net_type, physical_net |-> physical_net, vlan_id |-> vlan_id, tz_type |-> "VLAN", switch_mode |-> "STANDARD", generated |-> FALSE]
        vlan_phys == IF physical_net = None THEN default_vlan_tz_uuid ELSE physical_net
    IN  CASE net_type = "flat" ->
                IF vlan_id # PyNoneVlan
                THEN {[base EXCEPT !.err_msg = "segmentation id with flat"]}
                ELSE {[base EXCEPT !.vlan_id = IF ~req.transparent_vlan THEN StrZero ELSE vlan_id,
                                   !.physical_net = vlan_phys]}
          [] net_type = "vlan" ->
                IF req.transparent_vlan
                THEN {[base EXCEPT !.physical_net = vlan_phys]}
                ELSE IF ~VlanTruthy(vlan_id)
                THEN {[base EXCEPT !.physical_net = vlan_phys, !.raise = g.raise, !.vlan_id = g.tag, !.generated = TRUE] : g \in GenerateSegmentId(store, cfg, vlan_phys)}
                ELSE IF ~IsValidVlanTag(vlan_id)
                THEN {[base EXCEPT !.physical_net = vlan_phys, !.err_msg = "segmentation id out of range"]}
                ELSE IF GetNetworkBindingsByVlanidAndPhysicalNet(store, vlan_id, vlan_phys) # {}
                THEN {[base EXCEPT !.physical_net = vlan_phys, !.raise = "VlanIdInUse"]}
                ELSE {[base EXCEPT !.physical_net = vlan_phys]}
          [] net_type = "geneve" ->
                {[base EXCEPT !.tz_type = "OVERLAY",
                              !.err_msg = IF VlanTruthy(vlan_id) THEN "segmentation id with geneve" ELSE None]}
          [] net_type = "nsx-net" ->
                IF ~Truthy(physical_net)
                THEN {[base EXCEPT !.err_msg = "physical network required"]}
                ELSE LET tz_id == GetNsxNetTzId(physical_net)
                         found == tz_id # "ResourceNotFound"
                         used == GetNetworkBindingsByVlanidAndPhysicalNet(store, 0, physical_net) # {}
                     IN  {[base EXCEPT !.switch_mode = IF found THEN GetHostSwitchMode(tz_id) ELSE "STANDARD",
                                       !.err_msg = IF used THEN "logical switch in use"
                                                   ELSE IF ~found THEN "logical switch not found"
                                                   ELSE None]}
          [] net_type = None ->
                IF is_provider_net
                THEN {[base EXCEPT !.err_msg = "network type required"]}
                ELSE {base}
          [] OTHER -> {[base EXCEPT !.err_msg = "network type not supported"]}

\* a slip that never asks whether ENS support is enabled
ProviderFinishEnsAlwaysAllowed(req, ens_ok, is_provider_net, b) ==
    LET physical_net == IF b.physical_net = None THEN default_overlay_tz_uuid ELSE b.physical_net
        check_tz == b.err_msg = None /\ Truthy(physical_net) /\ b.net_type # "nsx-net"
        backend_type == GetTransportType(physical_net)
        err_msg == IF check_tz /\ is_provider_net
                   THEN IF backend_type = "ResourceNotFound" THEN "transport zone not found"
                        ELSE IF backend_type # b.tz_type THEN "transport zone type mismatch"
                        ELSE None
                   ELSE b.err_msg
        switch_mode == IF check_tz /\ err_msg = None THEN GetHostSwitchMode(physical_net) ELSE b.switch_mode
    IN  IF b.raise # "none" THEN Raised(b.raise, None)
        ELSE IF err_msg # None THEN Raised("InvalidInput", err_msg)
        ELSE IF switch_mode = "ENS" /\ req.qos_policy_id THEN Raised("InvalidInput", "QOS on ENS network")
        ELSE [status |-> "ok", err_msg |-> None, is_provider_net |-> is_provider_net, net_type |-> b.net_type, physical_net |-> physical_net, vlan_id |-> b.vlan_id, switch_mode |-> switch_mode, generated |-> b.generated]

\* plugin.py:797-832: transport zone validation, ENS checks and the result
ProviderFinish(req, ens_ok, is_provider_net, b) ==
    LET physical_net == IF b.physical_net = None THEN default_overlay_tz_uuid ELSE b.physical_net
        check_tz == b.err_msg = None /\ Truthy(physical_net) /\ b.net_type # "nsx-net"
        backend_type == GetTransportType(physical_net)
        err_msg == IF check_tz /\ is_provider_net
                   THEN IF backend_type = "ResourceNotFound" THEN "transport zone not found"
                        ELSE IF backend_type # b.tz_type THEN "transport zone type mismatch"
                        ELSE None
                   ELSE b.err_msg
        switch_mode == IF check_tz /\ err_msg = None THEN GetHostSwitchMode(physical_net) ELSE b.switch_mode
    IN  IF b.raise # "none" THEN Raised(b.raise, None)
        ELSE IF err_msg # None THEN Raised("InvalidInput", err_msg)
        ELSE IF switch_mode = "ENS" /\ ~ens_ok THEN Raised("NotImplementedError", "ENS support is disabled")
        ELSE IF switch_mode = "ENS" /\ req.qos_policy_id THEN Raised("InvalidInput", "QOS on ENS network")
        ELSE [status |-> "ok", err_msg |-> None, is_provider_net |-> is_provider_net, net_type |-> b.net_type, physical_net |-> physical_net, vlan_id |-> b.vlan_id, switch_mode |-> switch_mode, generated |-> b.generated]

\* a slip that leaves the segmentation id out of is_provider_net
ValidateProviderCreateTypeOrPhysOnly(req, store, cfg, ens_ok) ==
    LET is_provider_net == req.network_type # None \/ req.physical_network # None
        physical_net == req.physical_network
        vlan_id == req.segmentation_id
    IN  IF VlanTruthy(vlan_id) /\ req.transparent_vlan
        THEN {Raised("InvalidInput", "segmentation id with transparent vlan")}
        ELSE {ProviderFinish(req, ens_ok, is_provider_net, b) : b \in ProviderTypeBranch(req, store, cfg, is_provider_net, physical_net, vlan_id)}

\* plugin.py:681-832: every result the call can have on this store
ValidateProviderCreate(req, store, cfg, ens_ok) ==
    LET is_provider_net == req.network_type # None \/ req.physical_network # None \/ req.segmentation_id # PyNoneVlan
        physical_net == req.physical_network
        vlan_id == req.segmentation_id
    IN  IF VlanTruthy(vlan_id) /\ req.transparent_vlan
        THEN {Raised("InvalidInput", "segmentation id with transparent vlan")}
        ELSE {ProviderFinish(req, ens_ok, is_provider_net, b) : b \in ProviderTypeBranch(req, store, cfg, is_provider_net, physical_net, vlan_id)}

\* The physical network a create_network call serializes on: the one its
\* allocation and its binding will use.
SegmentLockKey(req) ==
    IF req.physical_network # None THEN req.physical_network
    ELSE IF req.network_type \in {"flat", "vlan"} THEN default_vlan_tz_uuid
    ELSE default_overlay_tz_uuid

\* the advisory lock of a physical network can be taken
SegmentLockFree(locks, key) == key \notin locks

\* the binding row written for a validated network
BindingRow(network_id, res) ==
    [network_id |-> network_id, binding_type |-> res.net_type, phy_uuid |-> res.physical_net, vlan_id |-> DbVlan(res.vlan_id)]

NoRequest == [network_type |-> None, physical_network |-> None, segmentation_id |-> PyNoneVlan, qos_policy_id |-> FALSE, transparent_vlan |-> FALSE]

NoResult == Raised("none", None)

\* the state of a plugin that has created no network
InitNet ==
    /\ netVlans \in [{default_vlan_tz_uuid} -> VlanRangeChoices]
    /\ ensAllowed \in BOOLEAN
    /\ overlayTzMode \in {"STANDARD", "ENS"}
    /\ bindings = {}
    /\ netCount = 0
    /\ segLocks = {}
    /\ npc = [p \in NetProcs |-> "idle"]
    /\ nreq = [p \in NetProcs |-> NoRequest]
    /\ nres = [p \in NetProcs |-> NoResult]

\* the provider network group at rest, for the other specifications
IdleNet ==
    /\ netVlans = [t \in {default_vlan_tz_uuid} |-> <<>>]
    /\ ensAllowed = FALSE
    /\ overlayTzMode = "STANDARD"
    /\ bindings = {}
    /\ netCount = 0
    /\ segLocks = {}
    /\ npc = [p \in NetProcs |-> "idle"]
    /\ nreq = [p \in NetProcs |-> NoRequest]
    /\ nres = [p \in NetProcs |-> NoResult]

\* create_network, first half: take the lock of the physical network and run
\* _validate_provider_create on the request; an error releases the lock.
BeginCreateNetwork(p, requests) ==
    /\ npc[p] = "idle"
    /\ netCount + Cardinality({q \in NetProcs : npc[q] = "validated"}) < MaxNetworks
    /\ \E req \in requests :
          /\ SegmentLockFree(segLocks, SegmentLockKey(req))
          /\ \E r \in ValidateProviderCreate(req, bindings, netVlans, ensAllowed) :
                /\ nreq' = [nreq EXCEPT ![p] = req]
                /\ nres' = [nres EXCEPT ![p] = r]
                /\ npc' = [npc EXCEPT ![p] = IF r.status = "ok" THEN "validated" ELSE "failed"]
                /\ segLocks' = IF r.status = "ok" THEN segLocks \cup {SegmentLockKey(req)} ELSE segLocks
    /\ UNCHANGED <<netVlans, ensAllowed, overlayTzMode, bindings, netCount>>

\* create_network, second half: persist the binding of a provider network
\* and release the lock.
CommitCreateNetwork(p) ==
    /\ npc[p] = "validated"
    /\ bindings' = IF nres[p].is_provider_net THEN bindings \cup {BindingRow(netCount + 1, nres[p])} ELSE bindings
    /\ netCount' = netCount + 1
    /\ segLocks' = segLocks \ {SegmentLockKey(nreq[p])}
    /\ npc' = [npc EXCEPT ![p] = "idle"]
    /\ nreq' = [nreq EXCEPT ![p] = NoRequest]
    /\ nres' = [nres EXCEPT ![p] = NoResult]
    /\ UNCHANGED <<netVlans, ensAllowed, overlayTzMode>>

\* the error of a rejected request has been returned to its caller
ReturnNetworkError(p) ==
    /\ npc[p] = "failed"
    /\ npc' = [npc EXCEPT ![p] = "idle"]
    /\ nreq' = [nreq EXCEPT ![p] = NoRequest]
    /\ nres' = [nres EXCEPT ![p] = NoResult]
    /\ UNCHANGED <<netVlans, ensAllowed, overlayTzMode, bindings, netCount, segLocks>>

(***************************************************************************)
(* Claims on segment allocation                                            *)
(***************************************************************************)
\* the tag lies in a configured range of the physical network, or in
\* [MIN_VLAN_TAG, MAX_VLAN_TAG] when the network has no configured range
TagInConfiguredBounds(tag, physical_network) ==
    IF physical_network \in DOMAIN netVlans /\ Len(netVlans[physical_network]) > 0
    THEN \E i \in 1 .. Len(netVlans[physical_network]) :
            netVlans[physical_network][i][1] <= tag /\ tag <= netVlans[physical_network][i][2]
    ELSE MIN_VLAN_TAG <= tag /\ tag <= MAX_VLAN_TAG

\* C1: a successful _generate_segment_id returns a tag that lies inside the
\* ranges configured for the physical network (inside [MIN_VLAN_TAG,
\* MAX_VLAN_TAG] when none is configured) and that is not the vlan_id of any
\* binding stored for that physical network.
C1_AllocatedTagInRangeAndFree ==
    \A p \in NetProcs :
        (npc[p] = "validated" /\ nres[p].generated) =>
            /\ TagInConfiguredBounds(nres[p].vlan_id, nres[p].physical_net)
            /\ \A b \in bindings :
                  b.phy_uuid = nres[p].physical_net => b.vlan_id # nres[p].vlan_id

\* a tag has been allocated on a physical network that already holds a
\* binding whose tag lies inside the configured bounds
C1_Witness ==
    /\ npc[1] = "validated" /\ nres[1].generated
    /\ \E b \in bindings :
          /\ b.phy_uuid = nres[1].physical_net
          /\ TagInConfiguredBounds(b.vlan_id, b.phy_uuid)

\* C2: whatever the interleaving of concurrent VLAN network creations, no
\* two networks are bound to the same tag of the same physical network.
C2_NoTwoNetworksShareTag ==
    \A b1 \in bindings, b2 \in bindings :
        (/\ b1.binding_type = "vlan" /\ b2.binding_type = "vlan"
         /\ b1.phy_uuid = b2.phy_uuid /\ b1.vlan_id = b2.vlan_id)
        => b1.network_id = b2.network_id

\* a second VLAN network has been given an allocated tag on a physical
\* network on which a first VLAN network is already bound
C2_Witness ==
    \E p \in NetProcs :
        /\ npc[p] = "validated" /\ nres[p].generated
        /\ \E b \in bindings : b.binding_type = "vlan" /\ b.phy_uuid = nres[p].physical_net

\* the candidate tags of a physical network and the tags bound on it
SegCandidates(physical_network) == {t \in 0 .. (MAX_VLAN_TAG + 1) : TagInConfiguredBounds(t, physical_network)}

BoundTags(physical_network) == {b.vlan_id : b \in {x \in bindings : x.phy_uuid = physical_network}}

\* the physical network of a VLAN request: the default VLAN zone when the
\* request names none
VlanPhysicalNet(req) == IF req.physical_network = None THEN default_vlan_tz_uuid ELSE req.physical_network

\* call p has run _validate_provider_create on a VLAN request that made it
\* call _generate_segment_id
AllocatingCall(p) ==
    /\ npc[p] # "idle"
    /\ nreq[p].network_type = "vlan" /\ ~nreq[p].transparent_vlan
    /\ ~VlanTruthy(nreq[p].segmentation_id)

\* C16: _generate_segment_id fails with NoNetworkAvailable exactly when
\* every tag of the candidate set of the physical network is bound; while a
\* candidate is free the tag it returns is a candidate that is not bound
\* (with tags 1..3 and tag 1 bound: 2 or 3, and once 2 and 3 are bound too
\* it fails).
C16_ExhaustedIffAllCandidatesBound ==
    \A p \in NetProcs :
        AllocatingCall(p) =>
            LET phys == VlanPhysicalNet(nreq[p])
            IN  /\ nres[p].status = "NoNetworkAvailable" <=> SegCandidates(phys) \subseteq BoundTags(phys)
                /\ nres[p].status = "ok" => nres[p].vlan_id \in SegCandidates(phys) \ BoundTags(phys)

\* with no configured range and the tags 1 and 2 bound, the allocation has
\* returned 3 and its network is created: the next allocation fails
C16_Witness ==
    /\ netVlans[default_vlan_tz_uuid] = <<>>
    /\ BoundTags(default_vlan_tz_uuid) = MIN_VLAN_TAG .. MAX_VLAN_TAG
    /\ netCount = 1 /\ \E b \in bindings : b.network_id = 1 /\ b.vlan_id = MAX_VLAN_TAG
    /\ AllocatingCall(1) /\ nres[1].status = "NoNetworkAvailable"

(***************************************************************************)
(* Claims on the binding planner                                           *)
(***************************************************************************)
\* call p has run _validate_provider_create on a request of this type
ValidatedType(p, net_type) == npc[p] # "idle" /\ nreq[p].network_type = net_type

SegmentationIdSupplied(req) == req.segmentation_id # PyNoneVlan

\* the call was rejected by one of the ENS checks that follow the resolution
EnsRejected(res) ==
    \/ res.status = "NotImplementedError"
    \/ res.status = "InvalidInput" /\ res.err_msg = "QOS on ENS network"

\* C17: for a request of type vlan that supplies a segmentation_id (any
\* value, 0 included) _validate_provider_create keeps the supplied tag and
\* accepts it only if it lies in [MIN_VLAN_TAG, MAX_VLAN_TAG] and no binding
\* with that tag exists on the (defaulted) physical network; an out-of-range
\* tag is rejected, a tag bound on that physical network fails with
\* VlanIdInUse, and the allocator runs only when segmentation_id is absent.
C17_SuppliedTagKeptAndValidated ==
    \A p \in NetProcs :
        (ValidatedType(p, "vlan") /\ ~nreq[p].transparent_vlan /\ SegmentationIdSupplied(nreq[p])) =>
            LET tag == nreq[p].segmentation_id
                in_range == MIN_VLAN_TAG <= tag /\ tag <= MAX_VLAN_TAG
                bound == tag \in BoundTags(VlanPhysicalNet(nreq[p]))
            IN  /\ ~nres[p].generated
                /\ nres[p].status = "ok" => (nres[p].vlan_id = tag /\ in_range /\ ~bound)
                /\ ~in_range => nres[p].status = "InvalidInput"
                /\ (in_range /\ bound) => nres[p].status = "VlanIdInUse"

\* C18: for a request of type geneve _validate_provider_create fails
\* whenever a segmentation_id is supplied, whatever its value, and succeeds,
\* with no VLAN tag, only when segmentation_id is absent.
C18_OverlayTakesNoSegmentationId ==
    \A p \in NetProcs :
        ValidatedType(p, "geneve") =>
            /\ SegmentationIdSupplied(nreq[p]) => nres[p].status # "ok"
            /\ nres[p].status = "ok" => (~SegmentationIdSupplied(nreq[p]) /\ nres[p].vlan_id = PyNoneVlan)

\* C19: for a request without a type, if none of type, physical_network and
\* segmentation_id is set and the call returns, it resolves to a
\* non-provider binding on the default overlay transport zone with no VLAN
\* tag, and the call returns unless that zone is in ENS mode and an ENS
\* check rejects the request; if physical_network or segmentation_id is
\* set the call fails with InvalidInput and resolves nothing.
C19_UntypedRequestResolution ==
    \A p \in NetProcs :
        ValidatedType(p, None) =>
            IF nreq[p].physical_network = None /\ ~SegmentationIdSupplied(nreq[p])
            THEN IF nres[p].status = "ok"
                 THEN /\ ~nres[p].is_provider_net /\ nres[p].net_type = None
                      /\ nres[p].physical_net = default_overlay_tz_uuid
                      /\ nres[p].vlan_id = PyNoneVlan
                 ELSE /\ overlayTzMode = "ENS" /\ EnsRejected(nres[p])
                      /\ ~ensAllowed \/ nreq[p].qos_policy_id
            ELSE nres[p].status = "InvalidInput" /\ ~nres[p].is_provider_net /\ nres[p].physical_net = None

\* C19 as stated: with none of the three attributes set the call resolves
\* to the non-provider binding on the default overlay zone
C19_UntypedRequestAlwaysResolves ==
    \A p \in NetProcs :
        ValidatedType(p, None) =>
            IF nreq[p].physical_network = None /\ ~SegmentationIdSupplied(nreq[p])
            THEN /\ nres[p].status = "ok"
                 /\ ~nres[p].is_provider_net /\ nres[p].net_type = None
                 /\ nres[p].physical_net = default_overlay_tz_uuid
                 /\ nres[p].vlan_id = PyNoneVlan
            ELSE nres[p].status = "InvalidInput"

\* a request with no provider attribute has resolved to the default overlay
\* zone after a provider network was created
C19_Witness ==
    /\ ValidatedType(1, None) /\ npc[1] = "validated"
    /\ nreq[1].physical_network = None /\ ~SegmentationIdSupplied(nreq[1])
    /\ nres[1].physical_net = default_overlay_tz_uuid
    /\ overlayTzMode = "ENS" /\ ensAllowed
    /\ bindings # {}

\* C20: for a request of type nsx-net _validate_provider_create succeeds
\* only if physical_network is supplied, the backend has a logical switch
\* of that id and no network binding references that switch; a missing
\* physical_network, a backend ResourceNotFound and an existing binding
\* each make the call fail with InvalidInput.
C20_LinkedSwitchMustExistAndBeFree ==
    \A p \in NetProcs :
        ValidatedType(p, "nsx-net") =>
            LET phys == nreq[p].physical_network
                missing == phys = None
                not_found == phys \notin {"ls1", "lse1"}
                in_use == \E b \in bindings : b.phy_uuid = phys
            IN  /\ nres[p].status = "ok" => (~missing /\ ~not_found /\ ~in_use)
                /\ (missing \/ not_found \/ in_use) => nres[p].status = "InvalidInput"

\* the transport zone a request resolves on: the zone it names or the
\* default zone of its type, for nsx-net the zone of the linked switch
ResolvedZone(req) ==
    IF req.network_type = "nsx-net"
    THEN IF req.physical_network = None THEN None ELSE GetNsxNetTzId(req.physical_network)
    ELSE IF req.physical_network # None THEN req.physical_network
    ELSE IF req.network_type \in {"flat", "vlan"} THEN default_vlan_tz_uuid
    ELSE default_overlay_tz_uuid

OnEnsZone(req) == GetHostSwitchMode(ResolvedZone(req)) = "ENS"

\* C21: whenever the resolved transport zone (or the zone of the linked
\* switch) is in ENS mode, _validate_provider_create fails if ENS support is
\* not enabled, and otherwise fails if the request carries a QoS policy; a
\* request resolved on a zone in standard mode is never rejected for these
\* reasons.
C21_EnsZoneChecks ==
    \A p \in NetProcs :
        npc[p] # "idle" =>
            /\ (OnEnsZone(nreq[p]) /\ ~ensAllowed) => nres[p].status # "ok"
            /\ (OnEnsZone(nreq[p]) /\ ensAllowed /\ nreq[p].qos_policy_id) => nres[p].status # "ok"
            /\ nres[p].status = "NotImplementedError" => (OnEnsZone(nreq[p]) /\ ~ensAllowed)
            /\ EnsRejected(nres[p]) => OnEnsZone(nreq[p])

\* a network linked to a switch of an ENS zone is rejected for its QoS
\* policy although ENS support is enabled
C21_Witness ==
    /\ npc[1] = "failed" /\ ensAllowed
    /\ nreq[1].network_type = "nsx-net" /\ nreq[1].physical_network = "lse1"
    /\ nreq[1].qos_policy_id
    /\ nres[1].status = "InvalidInput" /\ nres[1].err_msg = "QOS on ENS network"

DEVICE_OWNER_COMPUTE_PREFIX == "compute:"

DEVICE_OWNER_NETWORK_PREFIX == "network:"

DEVICE_OWNER_DHCP == "network:dhcp"

DEVICE_OWNER_ROUTER_INTF == "network:router_interface"

DEVICE_OWNER_ROUTER_GW == "network:router_gateway"

DEVICE_OWNER_LOADBALANCERV2 == "neutron:LOADBALANCERV2"

VPN_PORT_OWNER == "vpnservice"

DeviceOwners == {"", "compute:nova", DEVICE_OWNER_DHCP, DEVICE_OWNER_ROUTER_INTF, DEVICE_OWNER_ROUTER_GW, DEVICE_OWNER_LOADBALANCERV2, VPN_PORT_OWNER}

\* str.startswith on the device owners of the model
StartsWith(owner, prefix) ==
    CASE prefix = DEVICE_OWNER_COMPUTE_PREFIX -> owner \in {"compute:nova"}
      [] prefix = DEVICE_OWNER_NETWORK_PREFIX -> owner \in {DEVICE_OWNER_DHCP, DEVICE_OWNER_ROUTER_INTF, DEVICE_OWNER_ROUTER_GW}
      [] OTHER -> FALSE

\* nl_net_utils.is_port_trusted({'device_owner': device_owner})
IsPortTrusted(device_owner) == StartsWith(device_owner, DEVICE_OWNER_NETWORK_PREFIX)

AddressPairIds == {"ap1"}

SecurityGroupIds == {"sg1"}

DefaultSecurityGroup == "default"

ProviderSecurityGroupIds == {"psg1"}

PyFlags == {None, "True", "False"}

NotPresent == [present |-> FALSE, val |-> {}]

ListAttrs(ids) == {NotPresent} \cup [present : {TRUE}, val : SUBSET ids]

\* validators.is_attr_set on a list attribute, and "is set and != []"
IsAttrSetList(a) == a.present

HasList(a) == a.present /\ a.val # {}

DeletesList(a) == a.present /\ a.val = {}

\* fixed_ips of a request: absent, or the list the port has afterwards
\* (has_ip: it is not empty), delete_subnet: an entry carries 'delete_subnet'
NoFixedIps == [present |-> FALSE, has_ip |-> FALSE, delete_subnet |-> FALSE]

FixedIpsAttrs == {NoFixedIps} \cup [present : {TRUE}, has_ip : BOOLEAN, delete_subnet : BOOLEAN]

PortStores == [exists : BOOLEAN, device_owner : DeviceOwners, has_ip : BOOLEAN, psec : PyFlags, pairs : SUBSET AddressPairIds, sgs : SUBSET (SecurityGroupIds \cup {DefaultSecurityGroup}), psgs : SUBSET ProviderSecurityGroupIds, mac_learning : PyFlags]

NoPort == [exists |-> FALSE, device_owner |-> "", has_ip |-> FALSE, psec |-> None, pairs |-> {}, sgs |-> {}, psgs |-> {}, mac_learning |-> None]

\* port_data of a create or update request.  device_owner is None when the
\* update does not carry it.
PortRequests == [device_owner : DeviceOwners \cup {None}, fixed_ips : FixedIpsAttrs, port_security_enabled : PyFlags, allowed_address_pairs : ListAttrs(AddressPairIds), security_groups : ListAttrs(SecurityGroupIds), provider_security_groups : ListAttrs(ProviderSecurityGroupIds), mac_learning_enabled : PyFlags, qos_policy_id : {None, "qos1"}, admin_state_up : PyFlags]

\* what the calls read besides the port: the port's network and vnic type
PortEnvs == [is_ens_tz_port : BOOLEAN, ens_psec_supported : BOOLEAN, direct_vnic_type : BOOLEAN, is_external_net : BOOLEAN]

\* plugin.py:374-382
AssertOnIllegalPortWithQos(device_owner) ==
    IF device_owner = DEVICE_OWNER_ROUTER_INTF \/ device_owner = DEVICE_OWNER_DHCP THEN "InvalidInput" ELSE "ok"

\* plugin.py:384-393
AssertOnExternalNetWithCompute(port_data) ==
    IF port_data.device_owner # None /\ StartsWith(port_data.device_owner, DEVICE_OWNER_COMPUTE_PREFIX) THEN "InvalidInput" ELSE "ok"

\* plugin.py:481-489
AssertOnPortAdminState(port_data, device_owner) ==
    IF (device_owner = DEVICE_OWNER_ROUTER_INTF \/ device_owner = DEVICE_OWNER_ROUTER_GW) /\ port_data.admin_state_up = "False" THEN "InvalidInput" ELSE "ok"

\* the first error of a sequence of checks, "ok" when there is none
FirstError(checks) ==
    IF \E i \in 1..Len(checks) : checks[i] # "ok"
    THEN checks[CHOOSE i \in 1..Len(checks) : checks[i] # "ok" /\ \A j \in 1..(i - 1) : checks[j] = "ok"]
    ELSE "ok"

\* plugin.py:395-417
ValidateCreatePort(port_data, is_external_net) ==
    LET qos_selected == port_data.qos_policy_id # None
        device_owner == port_data.device_owner
    IN  FirstError(<<
            IF qos_selected THEN AssertOnIllegalPortWithQos(device_owner) ELSE "ok",
            IF qos_selected /\ is_external_net THEN "QoSOnExternalNet" ELSE "ok",
            IF is_external_net THEN AssertOnExternalNetWithCompute(port_data) ELSE "ok",
            AssertOnPortAdminState(port_data, device_owner) >>)

\* plugin.py:419-422
AssertOnVpnPortChange(port_data) ==
    IF port_data.device_owner = VPN_PORT_OWNER THEN "InvalidInput" ELSE "ok"

\* plugin.py:424-428
AssertOnLbPortFixedIpChange(port_data, orig_dev_own) ==
    IF orig_dev_own = DEVICE_OWNER_LOADBALANCERV2 /\ port_data.fixed_ips.present /\ port_data.fixed_ips.has_ip THEN "InvalidInput" ELSE "ok"

\* plugin.py:430-459 without the rule of the DHCP port at 457-459
AssertOnDeviceOwnerChangeNoDhcpRule(port_data, orig_dev_own) ==
    LET new_dev_own == port_data.device_owner
    IN  IF orig_dev_own = DEVICE_OWNER_LOADBALANCERV2 /\ HasList(port_data.allowed_address_pairs) THEN "InvalidInput"
        ELSE IF new_dev_own = None THEN "ok"
        ELSE IF new_dev_own = orig_dev_own THEN "ok"
        ELSE IF \/ StartsWith(orig_dev_own, DEVICE_OWNER_COMPUTE_PREFIX) /\ StartsWith(new_dev_own, DEVICE_OWNER_NETWORK_PREFIX)
                \/ StartsWith(orig_dev_own, DEVICE_OWNER_NETWORK_PREFIX) /\ StartsWith(new_dev_own, DEVICE_OWNER_COMPUTE_PREFIX)
             THEN "InvalidInput"
        ELSE "ok"

\* plugin.py:430-459
AssertOnDeviceOwnerChange(port_data, orig_dev_own) ==
    LET new_dev_own == port_data.device_owner
    IN  IF orig_dev_own = DEVICE_OWNER_LOADBALANCERV2 /\ HasList(port_data.allowed_address_pairs) THEN "InvalidInput"
        ELSE IF new_dev_own = None THEN "ok"
        ELSE IF new_dev_own = orig_dev_own THEN "ok"
        ELSE IF \/ StartsWith(orig_dev_own, DEVICE_OWNER_COMPUTE_PREFIX) /\ StartsWith(new_dev_own, DEVICE_OWNER_NETWORK_PREFIX)
                \/ StartsWith(orig_dev_own, DEVICE_OWNER_NETWORK_PREFIX) /\ StartsWith(new_dev_own, DEVICE_OWNER_COMPUTE_PREFIX)
             THEN "InvalidInput"
        ELSE IF orig_dev_own = DEVICE_OWNER_DHCP THEN "InvalidInput"
        ELSE "ok"

\* plugin.py:461-479
AssertOnPortSecChange(port_data, device_owner) ==
    IF IsPortTrusted(device_owner)
    THEN IF port_data.port_security_enabled = "True" THEN "InvalidInput"
         ELSE IF port_data.mac_learning_enabled = "True" THEN "InvalidInput"
         ELSE "ok"
    ELSE "ok"

\* plugin.py:491-520
ValidateUpdatePort(original_port, port_data, is_external_net) ==
    LET qos_selected == port_data.qos_policy_id # None
        device_owner == IF port_data.device_owner # None THEN port_data.device_owner ELSE original_port.device_owner
        orig_dev_owner == original_port.device_owner
    IN  FirstError(<<
            IF qos_selected /\ is_external_net THEN "QoSOnExternalNet" ELSE "ok",
            IF qos_selected THEN AssertOnIllegalPortWithQos(device_owner) ELSE "ok",
            IF is_external_net THEN AssertOnExternalNetWithCompute(port_data) ELSE "ok",
            AssertOnDeviceOwnerChange(port_data, orig_dev_owner),
            AssertOnPortAdminState(port_data, device_owner),
            AssertOnPortSecChange(port_data, device_owner),
            AssertOnVpnPortChange(original_port),
            AssertOnLbPortFixedIpChange(port_data, orig_dev_owner) >>)

\* neutron's _determine_port_security as called at plugin.py:194 and 218:
\* a trusted port has no port security, else the request's flag, else the
\* network's
DeterminePortSecurity(port_data, network_psec) ==
    IF port_data.device_owner # "" /\ IsPortTrusted(port_data.device_owner) THEN "False"
    ELSE IF port_data.port_security_enabled # None THEN port_data.port_security_enabled
    ELSE PyBool(network_psec)

Done(status, store) == [status |-> status, store |-> store]

\* _process_create_allowed_address_pairs (plugin.py:203, 290, 906): one row
\* per pair; a row that is already there is a duplicate entry
ProcessCreateAllowedAddressPairs(store, address_pairs) ==
    IF address_pairs \cap store.pairs # {} THEN Done("DuplicateAddressPairInRequest", store)
    ELSE Done("ok", [store EXCEPT !.pairs = store.pairs \cup address_pairs])

\* _delete_allowed_address_pairs (plugin.py:289, 904)
DeleteAllowedAddressPairs(store) == [store EXCEPT !.pairs = {}]

\* plugin.py:193-206.  The address pairs of the model are IPv4 pairs.
CreatePortAddressPairs(port_data, store, network_psec) ==
    LET port_security == DeterminePortSecurity(port_data, network_psec)
        address_pairs == port_data.allowed_address_pairs
    IN  IF IsAttrSetList(address_pairs)
        THEN IF ~Truthy(port_security) THEN Done("AddressPairAndPortSecurityRequired", store)
             ELSE ProcessCreateAllowedAddressPairs(store, address_pairs.val)
        ELSE Done("ok", store)

\* plugin.py:208-214, on the list the port data carries
ProviderSgsSpecified(provider_security_groups) == HasList(provider_security_groups)

\* _get_provider_security_groups_on_port (plugin.py:237): none for a trusted
\* port, the request's, else the tenant's provider security groups
GetProviderSecurityGroupsOnPort(port_data, tenant_psgs) ==
    IF port_data.device_owner # None /\ port_data.device_owner # "" /\ IsPortTrusted(port_data.device_owner) THEN {}
    ELSE IF port_data.provider_security_groups.present THEN port_data.provider_security_groups.val
    ELSE tenant_psgs

\* _get_security_groups_on_port (plugin.py:243-244, 327): the request's
\* security groups, none for a trusted port
GetSecurityGroupsOnPort(port_data) ==
    IF ~port_data.security_groups.present THEN {}
    ELSE IF port_data.device_owner # None /\ port_data.device_owner # "" /\ IsPortTrusted(port_data.device_owner) THEN {}
    ELSE port_data.security_groups.val

PreprocessResult(status, store, sgids, psgids) == [status |-> status, store |-> store, sgids |-> sgids, psgids |-> psgids]

\* plugin.py:216-245.  store is the port's rows when the call starts; the
\* result carries the rows when the call returns or raises.
CreatePortPreprocessSecurity(port_data, store, env, network_psec, tenant_psgs) ==
    LET port_security == DeterminePortSecurity(port_data, network_psec)
        has_ip == store.has_ip
        bound == [store EXCEPT !.psec = port_security]
        paired == CreatePortAddressPairs(port_data, bound, network_psec)
    IN  IF Truthy(port_security) /\ env.is_ens_tz_port /\ ~env.ens_psec_supported
        THEN PreprocessResult("NsxENSPortSecurity", store, {}, {})
        ELSE IF paired.status # "ok" THEN PreprocessResult(paired.status, paired.store, {}, {})
        ELSE IF Truthy(port_security) /\ has_ip
        THEN PreprocessResult("ok", paired.store,
                 IF port_data.security_groups.present THEN GetSecurityGroupsOnPort(port_data) ELSE {DefaultSecurityGroup},
                 GetProviderSecurityGroupsOnPort(port_data, tenant_psgs))
        ELSE IF \/ HasList(port_data.security_groups)
                \/ ProviderSgsSpecified(port_data.provider_security_groups)
                \/ GetProviderSecurityGroupsOnPort(port_data, tenant_psgs) # {}
        THEN PreprocessResult("PortSecurityAndIPRequiredForSecurityGroups", paired.store, {}, {})
        ELSE PreprocessResult("ok", paired.store, {}, {})

\* plugin.py:247-255
ShouldValidatePortSecOnUpdatePort(port_data) == ~(port_data.fixed_ips.present /\ port_data.fixed_ips.delete_subnet)

\* plugin.py:308-322: the check of security groups against port security
\* and ip, skipped when validate_port_sec is false
SecurityGroupCheckSkipped(port_data, store, provider_sgs_specified, has_ip, port_security, validate_port_sec) == "ok"

SecurityGroupCheck(port_data, store, provider_sgs_specified, has_ip, port_security, validate_port_sec) ==
    IF validate_port_sec /\ ~(has_ip /\ Truthy(port_security))
    THEN IF HasList(port_data.security_groups) \/ provider_sgs_specified THEN "PortSecurityAndIPRequiredForSecurityGroups"
         ELSE IF (store.sgs \cup store.psgs) # {} /\ ~DeletesList(port_data.security_groups) THEN "PortSecurityPortHasSecurityGroup"
         ELSE "ok"
    ELSE "ok"

\* plugin.py:274-283: address pairs need port security
AddressPairCheckRequestOnly(port_data, store, port_security) ==
    IF ~Truthy(port_security) /\ HasList(port_data.allowed_address_pairs) THEN "AddressPairAndPortSecurityRequired" ELSE "ok"

AddressPairCheck(port_data, store, port_security) ==
    IF ~Truthy(port_security)
    THEN IF HasList(port_data.allowed_address_pairs) THEN "AddressPairAndPortSecurityRequired"
         ELSE IF ~DeletesList(port_data.allowed_address_pairs) /\ store.pairs # {} THEN "AddressPairAndPortSecurityRequired"
         ELSE "ok"
    ELSE "ok"

\* plugin.py:257-335.  store is the port's rows after the base update of the
\* port row; the result carries the rows when the call returns or raises.
UpdatePortPreprocessSecurity(port_data, store, env, validate_port_sec) ==
    LET delete_addr_pairs == DeletesList(port_data.allowed_address_pairs)
        has_addr_pairs == HasList(port_data.allowed_address_pairs)
        has_security_groups == HasList(port_data.security_groups)
        delete_security_groups == DeletesList(port_data.security_groups)
        port_security == IF port_data.port_security_enabled = None THEN store.psec ELSE port_data.port_security_enabled
        has_ip == store.has_ip
        pair_check == AddressPairCheck(port_data, store, port_security)
        repaired == IF delete_addr_pairs \/ has_addr_pairs
                    THEN ProcessCreateAllowedAddressPairs(DeleteAllowedAddressPairs(store), port_data.allowed_address_pairs.val).store
                    ELSE store
        updated_psgs == IF port_data.provider_security_groups.present THEN port_data.provider_security_groups ELSE [present |-> TRUE, val |-> store.psgs]
        sg_check == SecurityGroupCheck(port_data, repaired, ProviderSgsSpecified(updated_psgs), has_ip, port_security, validate_port_sec)
        rebound == IF delete_security_groups \/ has_security_groups
                   THEN [repaired EXCEPT !.sgs = GetSecurityGroupsOnPort(port_data), !.psgs = {}]
                   ELSE repaired
        flagged == IF port_data.port_security_enabled # None
                   THEN [rebound EXCEPT !.psec = port_data.port_security_enabled]
                   ELSE rebound
    IN  IF pair_check # "ok" THEN Done(pair_check, store)
        ELSE IF Truthy(port_security) /\ port_data.port_security_enabled # None /\ env.is_ens_tz_port /\ ~env.ens_psec_supported
        THEN Done("NsxENSPortSecurity", repaired)
        ELSE IF Truthy(port_security) /\ port_data.port_security_enabled # None /\ env.direct_vnic_type
        THEN Done("InvalidInput", repaired)
        ELSE IF sg_check # "ok" THEN Done(sg_check, repaired)
        ELSE Done("ok", flagged)

\* plugin.py:873-885 without the implicit "port_data[psec.PORTSECURITY] =
\* False" at 884-885
FixDirectVnicPortSecNoImplicitDisable(direct_vnic_type, port_data) ==
    IF direct_vnic_type /\ port_data.port_security_enabled # None /\ Truthy(port_data.port_security_enabled)
    THEN [status |-> "InvalidInput", port_data |-> port_data]
    ELSE [status |-> "ok", port_data |-> port_data]

\* plugin.py:873-885: the port data after the call, or the error
FixDirectVnicPortSec(direct_vnic_type, port_data) ==
    IF direct_vnic_type
    THEN IF port_data.port_security_enabled # None
         THEN IF Truthy(port_data.port_security_enabled) THEN [status |-> "InvalidInput", port_data |-> port_data]
              ELSE [status |-> "ok", port_data |-> port_data]
         ELSE [status |-> "ok", port_data |-> [port_data EXCEPT !.port_security_enabled = "False"]]
    ELSE [status |-> "ok", port_data |-> port_data]

\* the base plugin's update_port (plugin.py:897-898): the columns of the
\* port row, none of the bindings
BaseUpdatePort(store, port_data) ==
    [store EXCEPT !.device_owner = IF port_data.device_owner # None THEN port_data.device_owner ELSE @,
                  !.has_ip = IF port_data.fixed_ips.present THEN port_data.fixed_ips.has_ip ELSE @]

\* plugin.py:893-912.  store holds the rows of the applied update and
\* updated_port is the port the update returned.
RevertNeutronPortUpdate(store, original_port, updated_port, port_security, sec_grp_updated) ==
    LET restored == [store EXCEPT !.device_owner = original_port.device_owner, !.has_ip = original_port.has_ip]
        orig_pair == original_port.pairs
        updated_pair == updated_port.pairs
        unpaired == IF port_security /\ orig_pair # updated_pair THEN DeleteAllowedAddressPairs(restored) ELSE restored
        paired == IF port_security /\ orig_pair # {} THEN ProcessCreateAllowedAddressPairs(unpaired, orig_pair) ELSE Done("ok", unpaired)
        rebound == IF sec_grp_updated /\ original_port.sgs # updated_port.sgs
                   THEN [paired.store EXCEPT !.sgs = original_port.sgs, !.psgs = {}]
                   ELSE paired.store
    IN  IF paired.status # "ok" THEN Done(paired.status, paired.store)
        ELSE Done("ok", rebound)

\* the caller's handling of provider security groups and of mac learning
\* after the preprocessing of an update: the request's provider security
\* groups when it carries them, else those of the original port
ProcessPortUpdateProviderSecurityGroup(store, original_port, port_data) ==
    [store EXCEPT !.psgs = IF port_data.provider_security_groups.present THEN GetProviderSecurityGroupsOnPort(port_data, {}) ELSE original_port.psgs,
                  !.mac_learning = IF port_data.mac_learning_enabled # None THEN port_data.mac_learning_enabled ELSE @]

\* the rows a validation may not touch: port security binding, allowed
\* address pairs, security group bindings
SecurityRows(store) == <<store.psec, store.pairs, store.sgs, store.psgs>>

NoPortRequest == [device_owner |-> None, fixed_ips |-> NoFixedIps, port_security_enabled |-> None, allowed_address_pairs |-> NotPresent, security_groups |-> NotPresent, provider_security_groups |-> NotPresent, mac_learning_enabled |-> None, qos_policy_id |-> None, admin_state_up |-> None]

\* the record of a call: the request, how it ended (outcome: "accepted",
\* "reverted" or the error raised), the original port (pre) and the rows
\* the call had written when it raised (post)
PortOp(op, outcome, req, pre, post) ==
    [op |-> op, outcome |-> outcome, validate_port_sec |-> ShouldValidatePortSecOnUpdatePort(req), req |-> req, pre |-> pre, post |-> post, port_security |-> FALSE, sec_grp_updated |-> FALSE]

NoPortOp == PortOp("none", "none", NoPortRequest, NoPort, NoPort)

\* requests of the security checks: owner, ips, port security, pairs, groups
SecCreateRequests ==
    [device_owner : {"", "compute:nova", DEVICE_OWNER_DHCP}, fixed_ips : {NoFixedIps, [present |-> TRUE, has_ip |-> TRUE, delete_subnet |-> FALSE]}, port_security_enabled : PyFlags, allowed_address_pairs : ListAttrs(AddressPairIds), security_groups : ListAttrs(SecurityGroupIds), provider_security_groups : ListAttrs(ProviderSecurityGroupIds), mac_learning_enabled : {None}, qos_policy_id : {None}, admin_state_up : {None}]

\* the update of a subnet deletion carries the fixed ips only
SubnetDeleteRequests ==
    {[NoPortRequest EXCEPT !.fixed_ips = f] : f \in [present : {TRUE}, has_ip : BOOLEAN, delete_subnet : {TRUE}]}

SecUpdateRequests ==
    [device_owner : {None}, fixed_ips : {NoFixedIps} \cup [present : {TRUE}, has_ip : BOOLEAN, delete_subnet : {FALSE}], port_security_enabled : PyFlags, allowed_address_pairs : ListAttrs(AddressPairIds), security_groups : ListAttrs(SecurityGroupIds), provider_security_groups : ListAttrs(ProviderSecurityGroupIds), mac_learning_enabled : {None}, qos_policy_id : {None}, admin_state_up : {None}]
    \cup SubnetDeleteRequests

SecEnvs == [is_ens_tz_port : BOOLEAN, ens_psec_supported : BOOLEAN, direct_vnic_type : BOOLEAN, is_external_net : {FALSE}]

\* requests of the device owner checks: owner, ips, port security, pairs,
\* mac learning
OwnerCreateRequests ==
    [device_owner : DeviceOwners, fixed_ips : {NoFixedIps, [present |-> TRUE, has_ip |-> TRUE, delete_subnet |-> FALSE]}, port_security_enabled : PyFlags, allowed_address_pairs : {NotPresent}, security_groups : {NotPresent}, provider_security_groups : {NotPresent}, mac_learning_enabled : PyFlags, qos_policy_id : {None}, admin_state_up : {None}]

OwnerUpdateRequests ==
    [device_owner : DeviceOwners \cup {None}, fixed_ips : {NoFixedIps} \cup [present : {TRUE}, has_ip : BOOLEAN, delete_subnet : {FALSE}], port_security_enabled : PyFlags, allowed_address_pairs : ListAttrs(AddressPairIds), security_groups : {NotPresent}, provider_security_groups : {NotPresent}, mac_learning_enabled : PyFlags, qos_policy_id : {None}, admin_state_up : {None}]

OwnerEnvs == [is_ens_tz_port : {FALSE}, ens_psec_supported : {FALSE}, direct_vnic_type : {FALSE}, is_external_net : BOOLEAN]

InitPort(envs) ==
    /\ port = NoPort
    /\ portEnv \in envs
    /\ portOp = NoPortOp

IdlePort ==
    /\ port = NoPort
    /\ portEnv = [is_ens_tz_port |-> FALSE, ens_psec_supported |-> FALSE, direct_vnic_type |-> FALSE, is_external_net |-> FALSE]
    /\ portOp = NoPortOp

\* create_port: _validate_create_port, the base creation of the port row,
\* fix_direct_vnic_port_sec, _create_port_preprocess_security and the
\* binding of the groups it returns, in one transaction of the store: a
\* raise rolls the rows back
CreatePort(requests) ==
    /\ portOp.op = "none"
    /\ ~port.exists
    /\ \E req \in requests, network_psec \in BOOLEAN, tenant_psgs \in SUBSET ProviderSecurityGroupIds :
          LET valid == ValidateCreatePort(req, portEnv.is_external_net)
              neutron_db == [NoPort EXCEPT !.exists = TRUE, !.device_owner = req.device_owner, !.has_ip = req.fixed_ips.has_ip]
              fixed == FixDirectVnicPortSec(portEnv.direct_vnic_type, req)
              r == CreatePortPreprocessSecurity(fixed.port_data, neutron_db, portEnv, network_psec, tenant_psgs)
              created == [r.store EXCEPT !.sgs = r.sgids, !.psgs = r.psgids, !.mac_learning = req.mac_learning_enabled]
          IN  IF valid # "ok" THEN port' = port /\ portOp' = PortOp("create", valid, req, NoPort, NoPort)
              ELSE IF fixed.status # "ok" THEN port' = port /\ portOp' = PortOp("create", fixed.status, req, NoPort, NoPort)
              ELSE IF r.status # "ok" THEN port' = port /\ portOp' = PortOp("create", r.status, req, NoPort, r.store)
              ELSE port' = created /\ portOp' = PortOp("create", "accepted", req, NoPort, created)
    /\ UNCHANGED portEnv

\* update_port up to the commit of its transaction: _validate_update_port,
\* the base update of the port row, _update_port_preprocess_security and
\* the caller's bindings; a raise rolls the rows back (post keeps the rows
\* the preprocessing had written when it raised).  pre keeps the original
\* port for the backend update that follows.
UpdatePort(requests) ==
    /\ portOp.op = "none"
    /\ port.exists
    /\ \E req \in requests :
          LET original_port == port
              validate_port_sec == ShouldValidatePortSecOnUpdatePort(req)
              valid == ValidateUpdatePort(original_port, req, portEnv.is_external_net)
              based == BaseUpdatePort(port, req)
              r == UpdatePortPreprocessSecurity(req, based, portEnv, validate_port_sec)
              updated == ProcessPortUpdateProviderSecurityGroup(r.store, original_port, req)
          IN  IF valid # "ok" THEN port' = port /\ portOp' = PortOp("update", valid, req, original_port, original_port)
              ELSE IF r.status # "ok" THEN port' = port /\ portOp' = PortOp("update", r.status, req, original_port, r.store)
              ELSE port' = updated /\ portOp' = PortOp("update", "accepted", req, original_port, updated)
    /\ UNCHANGED portEnv

\* update_port when the backend update fails: _revert_neutron_port_update
\* in a transaction of its own, which a raise of the revert rolls back
RevertPortUpdate ==
    /\ portOp.op = "update"
    /\ portOp.outcome = "accepted"
    /\ \E port_security \in BOOLEAN, sec_grp_updated \in BOOLEAN :
          LET v == RevertNeutronPortUpdate(port, portOp.pre, port, port_security, sec_grp_updated)
          IN  /\ port' = IF v.status = "ok" THEN v.store ELSE port
              /\ portOp' = [portOp EXCEPT !.op = "revert", !.outcome = IF v.status = "ok" THEN "reverted" ELSE v.status, !.post = port,
                                          !.port_security = port_security, !.sec_grp_updated = sec_grp_updated]
    /\ UNCHANGED portEnv

\* the call returns to its caller (after a successful backend update when
\* it is an accepted update)
ReturnPortResult ==
    /\ portOp.op # "none"
    /\ portOp' = NoPortOp
    /\ UNCHANGED <<port, portEnv>>

(***************************************************************************)
(* Claims on the port invariant validator.                                 *)
(***************************************************************************)
PortAccepted == portOp.op \in {"create", "update"} /\ portOp.outcome = "accepted"

PortRejected == portOp.op \in {"create", "update"} /\ portOp.outcome # "accepted"

GroupsHavePortSecurityAndIp(p) == (p.sgs \cup p.psgs) # {} => (Truthy(p.psec) /\ p.has_ip)

\* C5 as stated: after every accepted port create and every accepted port
\* update, those run with validate_port_sec=False included, a port with a
\* security group or provider security group has port security and an ip.
C5_GroupsNeedPortSecurityAndIpAlways == PortAccepted => GroupsHavePortSecurityAndIp(port)

\* C5 amended: after every accepted port create and every accepted port
\* update run with validate_port_sec=True, a port with a security group or
\* provider security group has port security enabled and a fixed ip.
C5_GroupsNeedPortSecurityAndIp == (PortAccepted /\ portOp.validate_port_sec) => GroupsHavePortSecurityAndIp(port)

C5_Witness ==
    /\ portOp.op = "update" /\ portOp.outcome = "accepted" /\ portOp.validate_port_sec
    /\ portOp.pre.sgs = {} /\ port.sgs # {} /\ port.psgs # {}
    /\ Truthy(port.psec) /\ port.has_ip

\* C6: after every accepted port create and every accepted port update a
\* port with stored allowed address pairs has port security enabled; an
\* update that sets port security to false on a port with stored pairs and
\* does not delete them is rejected with AddressPairAndPortSecurityRequired.
C6_AddressPairsNeedPortSecurity ==
    /\ PortAccepted => (port.pairs # {} => Truthy(port.psec))
    /\ (/\ portOp.op = "update"
        /\ portOp.req.port_security_enabled = "False"
        /\ portOp.pre.pairs # {}
        /\ ~DeletesList(portOp.req.allowed_address_pairs)
        /\ ValidateUpdatePort(portOp.pre, portOp.req, portEnv.is_external_net) = "ok")
       => portOp.outcome = "AddressPairAndPortSecurityRequired"

C6_Witness ==
    /\ portOp.op = "update"
    /\ portOp.req.port_security_enabled = "False"
    /\ portOp.pre.pairs # {}
    /\ ~portOp.req.allowed_address_pairs.present
    /\ portOp.outcome = "AddressPairAndPortSecurityRequired"
    /\ port.pairs # {} /\ Truthy(port.psec)

\* C7: after every accepted port create and every accepted port update, a
\* port whose device owner is trusted has neither port security enabled
\* nor mac learning enabled.
C7_TrustedPortsHaveNoPortSecurity ==
    (PortAccepted /\ IsPortTrusted(port.device_owner)) => (port.psec # "True" /\ port.mac_learning # "True")

\* C8: after _revert_neutron_port_update the port's attributes, its allowed
\* address pairs and its security group bindings equal those of the
\* original port, whatever port_security and sec_grp_updated are.
C8_RevertRestoresOriginalPort ==
    portOp.op = "revert" =>
        /\ port.device_owner = portOp.pre.device_owner
        /\ port.has_ip = portOp.pre.has_ip
        /\ port.pairs = portOp.pre.pairs
        /\ port.sgs = portOp.pre.sgs
        /\ port.psgs = portOp.pre.psgs

\* C9: when the preprocessing of a port create or update raises, no port
\* security binding, allowed address pair or security group binding has
\* been written, deleted or replaced before the raise.
C9_RejectionWritesNothing == PortRejected => SecurityRows(portOp.post) = SecurityRows(portOp.pre)

\* an update of the port has been validated; its request and the device
\* owner of the original port
PortUpdated == portOp.op = "update"

OrigDevOwn == portOp.pre.device_owner

NewDevOwn == portOp.req.device_owner

\* the update exchanges a compute-prefixed and a network-prefixed owner
ExchangesComputeAndNetwork ==
    /\ NewDevOwn # None
    /\ \/ StartsWith(OrigDevOwn, DEVICE_OWNER_COMPUTE_PREFIX) /\ StartsWith(NewDevOwn, DEVICE_OWNER_NETWORK_PREFIX)
       \/ StartsWith(OrigDevOwn, DEVICE_OWNER_NETWORK_PREFIX) /\ StartsWith(NewDevOwn, DEVICE_OWNER_COMPUTE_PREFIX)

\* the update changes or clears the owner of a DHCP-owned port
ChangesDhcpOwner == OrigDevOwn = DEVICE_OWNER_DHCP /\ NewDevOwn # None /\ NewDevOwn # OrigDevOwn

\* the update leaves the device owner as it is
KeepsDevOwn == NewDevOwn = None \/ NewDevOwn = OrigDevOwn

\* C32 as stated: an update that exchanges a compute-prefixed and a
\* network-prefixed device owner is rejected, an update that changes or
\* clears the owner of a DHCP-owned port is rejected, and an update that
\* leaves the device owner equal to the original is never rejected by
\* _assert_on_device_owner_change.
C32_OwnerChangeRulesUnchangedNeverRejected ==
    PortUpdated =>
        /\ (ExchangesComputeAndNetwork \/ ChangesDhcpOwner) => portOp.outcome # "accepted"
        /\ KeepsDevOwn => AssertOnDeviceOwnerChange(portOp.req, OrigDevOwn) = "ok"

\* C32 amended: as above, but an update that leaves the device owner equal
\* to the original is rejected by _assert_on_device_owner_change exactly
\* when the original owner is the load balancer and the update carries a
\* non-empty allowed_address_pairs.
C32_OwnerChangeRules ==
    PortUpdated =>
        /\ (ExchangesComputeAndNetwork \/ ChangesDhcpOwner) => portOp.outcome # "accepted"
        /\ KeepsDevOwn =>
              (AssertOnDeviceOwnerChange(portOp.req, OrigDevOwn) # "ok" <=>
                  (OrigDevOwn = DEVICE_OWNER_LOADBALANCERV2 /\ HasList(portOp.req.allowed_address_pairs)))

\* the owner of a DHCP-owned port is cleared and the update is rejected
C32_Witness ==
    /\ PortUpdated /\ OrigDevOwn = DEVICE_OWNER_DHCP /\ NewDevOwn = ""
    /\ portOp.outcome = "InvalidInput"

\* the update carries a list of fixed IPs or of address pairs that is not
\* empty or that empties the list of the port
CarriesListChange ==
    \/ portOp.req.fixed_ips.present /\ (portOp.req.fixed_ips.has_ip \/ portOp.pre.has_ip)
    \/ portOp.req.allowed_address_pairs.present /\ (portOp.req.allowed_address_pairs.val # {} \/ portOp.pre.pairs # {})

\* C33: every update of a port whose original device owner is the load
\* balancer that carries a change of fixed_ips or of allowed_address_pairs
\* is rejected, a change that sets the list to empty included.
C33_LoadBalancerPortListsFrozen ==
    (PortUpdated /\ OrigDevOwn = DEVICE_OWNER_LOADBALANCERV2 /\ CarriesListChange) => portOp.outcome # "accepted"

\* a create or update of the port has run
PortCalled == portOp.op \in {"create", "update"}

Nets == {"n1", "n2"}

DhcpProcs == {1, 2}

MaxCalls == 2

MaxFaults == 2

NoService == [port_id |-> 0, nsx_service_id |-> 0]

IdleProc == [pc |-> "idle", op |-> "none", net |-> "n1", subnet |-> 0, ddi |-> FALSE, ret |-> "none", failed |-> 0, result |-> "none", by |-> "none"]

\* plugin.py:1381, 1453
LockName(network_id) == "nsxv3_network_" \o network_id

\* locking.LockManager.get_lock (plugin.py:1384, 1454) blocks while another
\* worker holds the lock of that name
LockAlwaysFree(locks, name) == TRUE

LockFree(locks, name) == locks[name] = 0

\* plugin.py:1490-1495 without the test of enable_dhcp
HasNoDhcpEnabledSubnetUnchecked(rows, n) == TRUE

\* plugin.py:1490-1495
HasNoDhcpEnabledSubnet(rows, n) == ~\E s \in rows : s.net = n /\ s.enable_dhcp

\* plugin.py:1497-1505
HasSingleDhcpEnabledSubnet(rows, n) == Cardinality({s \in rows : s.net = n /\ s.enable_dhcp}) = 1

\* the port_data of the DHCP port (plugin.py:1147-1157)
DhcpPortData == [NoPortRequest EXCEPT !.device_owner = DEVICE_OWNER_DHCP, !.fixed_ips = [present |-> TRUE, has_ip |-> TRUE, delete_subnet |-> FALSE], !.port_security_enabled = "False", !.admin_state_up = "True"]

IdleDhcp ==
    /\ dproc = [p \in DhcpProcs |-> IdleProc]
    /\ netLocks = [l \in {LockName(n) : n \in Nets} |-> 0]
    /\ dhcpDb = [subnets |-> {}, service |-> [n \in Nets |-> NoService], ports |-> {}, port_mappings |-> {}, bindings |-> {}]
    /\ nsxBackend = [servers |-> {}, lports |-> {}]
    /\ nativeDhcp = FALSE
    /\ calls = 0
    /\ faults = 0

\* no subnet yet, or network n2 with native DHCP enabled: the rows and the
\* backend objects that a successful _enable_native_dhcp leaves for its
\* subnet (plugin.py:1160-1220), whose id is above the ids of the calls
InitDhcp ==
    LET enabled == MaxCalls + 1
    IN  /\ dproc = [p \in DhcpProcs |-> IdleProc]
        /\ netLocks = [l \in {LockName(n) : n \in Nets} |-> 0]
        /\ nativeDhcp \in BOOLEAN
        /\ \/ /\ dhcpDb = [subnets |-> {}, service |-> [n \in Nets |-> NoService], ports |-> {}, port_mappings |-> {}, bindings |-> {}]
              /\ nsxBackend = [servers |-> {}, lports |-> {}]
           \/ /\ nativeDhcp
              /\ dhcpDb = [subnets |-> {[net |-> "n2", id |-> enabled, enable_dhcp |-> TRUE]},
                           service |-> [n \in Nets |-> IF n = "n2" THEN [port_id |-> enabled, nsx_service_id |-> enabled] ELSE NoService],
                           ports |-> {enabled}, port_mappings |-> {enabled}, bindings |-> {enabled}]
              /\ nsxBackend = [servers |-> {enabled}, lports |-> {enabled}]
        /\ calls = 0
        /\ faults = 0

\* network n2 with native DHCP enabled, and the delete_subnet of worker 1 for
\* its DHCP-enabled subnet has read the subnet (plugin.py:1446-1453) and is
\* about to take the lock of the network; calls counts the calls after it
InitDhcpDeleting ==
    LET enabled == MaxCalls + 1
    IN  /\ dproc = [p \in DhcpProcs |-> IF p = 1 THEN [IdleProc EXCEPT !.pc = "ds_lock", !.op = "delete", !.net = "n2", !.subnet = enabled] ELSE IdleProc]
        /\ netLocks = [l \in {LockName(n) : n \in Nets} |-> 0]
        /\ nativeDhcp = TRUE
        /\ dhcpDb = [subnets |-> {[net |-> "n2", id |-> enabled, enable_dhcp |-> TRUE]},
                     service |-> [n \in Nets |-> IF n = "n2" THEN [port_id |-> enabled, nsx_service_id |-> enabled] ELSE NoService],
                     ports |-> {enabled}, port_mappings |-> {enabled}, bindings |-> {enabled}]
        /\ nsxBackend = [servers |-> {enabled}, lports |-> {enabled}]
        /\ calls = 0
        /\ faults = 0

\* what a store or backend call can do: return ("ok") or raise one of errors
Outcomes(errors) == {"ok"} \cup (IF faults < MaxFaults THEN errors ELSE {})

Fault(outcome) == faults' = IF outcome = "ok" THEN faults ELSE faults + 1

\* worker p goes on to pc
Goto(p, pc) == dproc' = [dproc EXCEPT ![p].pc = pc]

\* the exception raised by the call `by` leaves step `failed` of the enable
\* and the body of the lock (result "ok": the body ends)
Leave(p, result, by, failed) == dproc' = [dproc EXCEPT ![p].pc = "unlock", ![p].result = result, ![p].by = by, ![p].failed = failed]

\* plugin.py:1373-1383 and 1430-1443.  Without native DHCP or with DHCP off
\* the subnet row is created, and removed again when its address space is
\* invalid; else ddi_support is read and the lock of the network comes next
CreateSubnetStart(p) ==
    /\ dproc[p].pc = "idle"
    /\ calls < MaxCalls
    /\ calls' = calls + 1
    /\ \E n \in Nets, enable_dhcp \in BOOLEAN :
          LET id == calls + 1
          IN  IF nativeDhcp /\ enable_dhcp
              THEN /\ \E ddi_support \in BOOLEAN :
                         dproc' = [dproc EXCEPT ![p] = [IdleProc EXCEPT !.pc = "cs_lock", !.op = "create", !.net = n, !.subnet = id, !.ddi = ddi_support]]
                   /\ UNCHANGED dhcpDb
              ELSE /\ \E valid_address_space \in BOOLEAN :
                         dhcpDb' = IF valid_address_space
                                   THEN [dhcpDb EXCEPT !.subnets = @ \cup {[net |-> n, id |-> id, enable_dhcp |-> enable_dhcp]}]
                                   ELSE dhcpDb
                   /\ UNCHANGED dproc
    /\ UNCHANGED <<netLocks, nsxBackend, nativeDhcp, faults>>

\* plugin.py:1384: with locking.LockManager.get_lock(lock)
CreateSubnetLock(p) ==
    /\ dproc[p].pc = "cs_lock"
    /\ LockFree(netLocks, LockName(dproc[p].net))
    /\ netLocks' = [netLocks EXCEPT ![LockName(dproc[p].net)] = p]
    /\ Goto(p, "cs_check")
    /\ UNCHANGED <<dhcpDb, nsxBackend, nativeDhcp, calls, faults>>

\* plugin.py:1387-1429 up to the call of _enable_native_dhcp, which runs
\* (native_dhcp_runs) when the network has no dhcp_relay and nsxlib is set
CreateSubnetCheck(p) ==
    /\ dproc[p].pc = "cs_check"
    /\ LET n == dproc[p].net
           row == [net |-> n, id |-> dproc[p].subnet, enable_dhcp |-> TRUE]
       IN  IF ~dproc[p].ddi
           THEN Leave(p, "InvalidInput", "_create_subnet", 0) /\ UNCHANGED dhcpDb
           ELSE IF ~HasNoDhcpEnabledSubnet(dhcpDb.subnets, n)
           THEN Leave(p, "InvalidInput", "_create_subnet", 0) /\ UNCHANGED dhcpDb
           ELSE \E valid_address_space \in BOOLEAN :
                   IF ~valid_address_space
                   THEN Leave(p, "InvalidInput", "_validate_address_space", 0) /\ UNCHANGED dhcpDb
                   ELSE /\ dhcpDb' = [dhcpDb EXCEPT !.subnets = @ \cup {row}]
                        /\ \E native_dhcp_runs \in BOOLEAN :
                              IF native_dhcp_runs
                              THEN dproc' = [dproc EXCEPT ![p].pc = "dis_start", ![p].ret = "en_port"]
                              ELSE Leave(p, "ok", "none", 0)
    /\ UNCHANGED <<netLocks, nsxBackend, nativeDhcp, calls, faults>>

\* an exception leaves _disable_native_dhcp: called by _enable_native_dhcp
\* (plugin.py:1133) it leaves the enable and _create_subnet too; called by
\* delete_subnet it is logged and dropped (plugin.py:1458-1463)
DisableRaise(p, result, by) ==
    IF dproc[p].ret = "en_port"
    THEN Leave(p, result, by, 1)
    ELSE dproc' = [dproc EXCEPT ![p].pc = "ds_delete", ![p].by = by]

\* plugin.py:1226-1245
DisableStart(p) ==
    /\ dproc[p].pc = "dis_start"
    /\ LET dhcp_service == dhcpDb.service[dproc[p].net]
       IN  IF dhcp_service = NoService THEN Goto(p, dproc[p].ret)
           ELSE IF dhcp_service.port_id # 0 THEN Goto(p, "dis_port")
           ELSE Goto(p, "dis_server")
    /\ UNCHANGED <<dhcpDb, netLocks, nsxBackend, nativeDhcp, calls, faults>>

\* plugin.py:1232-1242 with an except clause that also catches the
\* PortNotFound of delete_port
DisableCleanupPortAnyNotFound(p) ==
    /\ dproc[p].pc = "dis_port"
    /\ LET port_id == dhcpDb.service[dproc[p].net].port_id
           nsx_port_id == IF port_id \in dhcpDb.port_mappings THEN port_id ELSE 0
       IN  IF port_id \notin dhcpDb.ports
           THEN Goto(p, "dis_server") /\ UNCHANGED <<dhcpDb, nsxBackend, calls, faults>>
           ELSE /\ dhcpDb' = [dhcpDb EXCEPT !.ports = @ \ {port_id}, !.port_mappings = @ \ {port_id}]
                /\ IF nsx_port_id = 0
                   THEN Goto(p, "dis_server") /\ UNCHANGED <<nsxBackend, calls, faults>>
                   ELSE \E backend \in Outcomes({"ResourceNotFound", "ManagerError"}) :
                           /\ Fault(backend)
                           /\ nsxBackend' = IF backend = "ok" THEN [nsxBackend EXCEPT !.lports = @ \ {nsx_port_id}] ELSE nsxBackend
                           /\ IF backend = "ManagerError"
                              THEN DisableRaise(p, "ManagerError", "logical_port.delete")
                              ELSE Goto(p, "dis_server")
    /\ UNCHANGED <<netLocks, nativeDhcp, calls>>

\* plugin.py:1232-1242 with _cleanup_port (1271-1276): the local DHCP port
\* is deleted, its mapping row with it, then the logical port on the
\* backend; of the exceptions only ResourceNotFound is caught
DisableCleanupPort(p) ==
    /\ dproc[p].pc = "dis_port"
    /\ LET port_id == dhcpDb.service[dproc[p].net].port_id
           nsx_port_id == IF port_id \in dhcpDb.port_mappings THEN port_id ELSE 0
       IN  IF port_id \notin dhcpDb.ports
           THEN DisableRaise(p, "PortNotFound", "delete_port") /\ UNCHANGED <<dhcpDb, nsxBackend, calls, faults>>
           ELSE /\ dhcpDb' = [dhcpDb EXCEPT !.ports = @ \ {port_id}, !.port_mappings = @ \ {port_id}]
                /\ IF nsx_port_id = 0
                   THEN Goto(p, "dis_server") /\ UNCHANGED <<nsxBackend, calls, faults>>
                   ELSE \E backend \in Outcomes({"ResourceNotFound", "ManagerError"}) :
                           /\ Fault(backend)
                           /\ nsxBackend' = IF backend = "ok" THEN [nsxBackend EXCEPT !.lports = @ \ {nsx_port_id}] ELSE nsxBackend
                           /\ IF backend = "ManagerError"
                              THEN DisableRaise(p, "ManagerError", "logical_port.delete")
                              ELSE Goto(p, "dis_server")
    /\ UNCHANGED <<netLocks, nativeDhcp, calls>>

\* plugin.py:1247-1258
DisableDeleteServer(p) ==
    /\ dproc[p].pc = "dis_server"
    /\ \E backend \in Outcomes({"ManagerError"}) :
          /\ Fault(backend)
          /\ IF backend = "ok"
             THEN /\ nsxBackend' = [nsxBackend EXCEPT !.servers = @ \ {dhcpDb.service[dproc[p].net].nsx_service_id}]
                  /\ Goto(p, "dis_rows")
             ELSE DisableRaise(p, backend, "dhcp_server.delete") /\ UNCHANGED nsxBackend
    /\ UNCHANGED <<dhcpDb, netLocks, nativeDhcp, calls>>

\* plugin.py:1259-1269: the service binding row, then the DHCP binding rows
DisableDeleteRows(p) ==
    /\ dproc[p].pc = "dis_rows"
    /\ LET n == dproc[p].net
           nsx_service_id == dhcpDb.service[n].nsx_service_id
       IN  \E store \in Outcomes({"delete_neutron_nsx_service_binding", "delete_neutron_nsx_dhcp_bindings_by_service_id"}) :
              /\ Fault(store)
              /\ IF store = "delete_neutron_nsx_service_binding"
                 THEN DisableRaise(p, "DBError", store) /\ UNCHANGED dhcpDb
                 ELSE IF store = "delete_neutron_nsx_dhcp_bindings_by_service_id"
                 THEN /\ dhcpDb' = [dhcpDb EXCEPT !.service[n] = NoService]
                      /\ DisableRaise(p, "DBError", store)
                 ELSE /\ dhcpDb' = [dhcpDb EXCEPT !.service[n] = NoService, !.bindings = @ \ {nsx_service_id}]
                      /\ Goto(p, dproc[p].ret)
    /\ UNCHANGED <<netLocks, nsxBackend, nativeDhcp, calls>>

\* plugin.py:1135-1163, steps 2 and 3 of the enable: the backend id of the
\* network, the local DHCP port and its port security preprocessing
EnableCreatePort(p) ==
    /\ dproc[p].pc = "en_port"
    /\ \E store \in Outcomes({"_get_network_nsx_id", "create_port"}) :
          /\ Fault(store)
          /\ IF store = "_get_network_nsx_id"
             THEN Leave(p, "NsxPluginException", store, 2) /\ UNCHANGED dhcpDb
             ELSE IF store = "create_port"
             THEN Leave(p, "IpAddressGenerationFailure", store, 3) /\ UNCHANGED dhcpDb
             ELSE \E is_ens_tz_port \in BOOLEAN, network_psec \in BOOLEAN :
                     LET neutron_db == [NoPort EXCEPT !.exists = TRUE, !.device_owner = DEVICE_OWNER_DHCP, !.has_ip = TRUE]
                         env == [is_ens_tz_port |-> is_ens_tz_port, ens_psec_supported |-> FALSE, direct_vnic_type |-> FALSE, is_external_net |-> FALSE]
                         r == CreatePortPreprocessSecurity(DhcpPortData, neutron_db, env, network_psec, ProviderSecurityGroupIds)
                     IN  /\ dhcpDb' = [dhcpDb EXCEPT !.ports = @ \cup {dproc[p].subnet}]
                         /\ IF r.status # "ok"
                            THEN Leave(p, r.status, "_create_port_preprocess_security", 3)
                            ELSE Goto(p, "en_server")
    /\ UNCHANGED <<netLocks, nsxBackend, nativeDhcp, calls>>

\* plugin.py:1176, step 4; a ManagerError goes to the handler at 1188 with
\* dhcp_server None
EnableCreateServer(p) ==
    /\ dproc[p].pc = "en_server"
    /\ \E backend \in Outcomes({"ManagerError"}) :
          /\ Fault(backend)
          /\ IF backend = "ok"
             THEN /\ nsxBackend' = [nsxBackend EXCEPT !.servers = @ \cup {dproc[p].subnet}]
                  /\ Goto(p, "en_lport")
             ELSE /\ dproc' = [dproc EXCEPT ![p].pc = "rb_port", ![p].result = backend, ![p].by = "dhcp_server.create", ![p].failed = 4]
                  /\ UNCHANGED nsxBackend
    /\ UNCHANGED <<dhcpDb, netLocks, nativeDhcp, calls>>

\* plugin.py:1181-1184, step 5; a ManagerError goes to the handler at 1188
\* with the dhcp_server created
EnableCreateLogicalPort(p) ==
    /\ dproc[p].pc = "en_lport"
    /\ \E backend \in Outcomes({"ManagerError"}) :
          /\ Fault(backend)
          /\ IF backend = "ok"
             THEN /\ nsxBackend' = [nsxBackend EXCEPT !.lports = @ \cup {dproc[p].subnet}]
                  /\ Goto(p, "en_map")
             ELSE /\ dproc' = [dproc EXCEPT ![p].pc = "rb_server", ![p].result = backend, ![p].by = "logical_port.create", ![p].failed = 5]
                  /\ UNCHANGED nsxBackend
    /\ UNCHANGED <<dhcpDb, netLocks, nativeDhcp, calls>>

\* plugin.py:1192-1193 inside save_and_reraise_exception: an exception of
\* the delete replaces the saved one and ends the handler
RollbackDeleteServer(p) ==
    /\ dproc[p].pc = "rb_server"
    /\ \E backend \in Outcomes({"ManagerError"}) :
          /\ Fault(backend)
          /\ IF backend = "ok"
             THEN /\ nsxBackend' = [nsxBackend EXCEPT !.servers = @ \ {dproc[p].subnet}]
                  /\ Goto(p, "rb_port")
             ELSE /\ Leave(p, backend, "dhcp_server.delete", dproc[p].failed)
                  /\ UNCHANGED nsxBackend
    /\ UNCHANGED <<dhcpDb, netLocks, nativeDhcp, calls>>

\* plugin.py:1194-1195, then the saved exception is raised again
RollbackDeletePort(p) ==
    /\ dproc[p].pc = "rb_port"
    /\ \E store \in Outcomes({"DBError"}) :
          /\ Fault(store)
          /\ IF store = "ok"
             THEN /\ dhcpDb' = [dhcpDb EXCEPT !.ports = @ \ {dproc[p].subnet}]
                  /\ Leave(p, dproc[p].result, dproc[p].by, dproc[p].failed)
             ELSE /\ Leave(p, store, "delete_port", dproc[p].failed)
                  /\ UNCHANGED dhcpDb
    /\ UNCHANGED <<netLocks, nsxBackend, nativeDhcp, calls>>

\* plugin.py:1197-1205, step 6: the port mapping row, then the service
\* binding row; a DBError goes to the handler at 1206
EnablePersistMappings(p) ==
    /\ dproc[p].pc = "en_map"
    /\ LET id == dproc[p].subnet
           n == dproc[p].net
       IN  \E store \in Outcomes({"add_neutron_nsx_port_mapping", "add_neutron_nsx_service_binding"}) :
              /\ Fault(store)
              /\ IF store = "ok"
                 THEN /\ dhcpDb' = [dhcpDb EXCEPT !.port_mappings = @ \cup {id}, !.service[n] = [port_id |-> id, nsx_service_id |-> id]]
                      /\ Goto(p, "en_bind")
                 ELSE /\ dhcpDb' = IF store = "add_neutron_nsx_service_binding" THEN [dhcpDb EXCEPT !.port_mappings = @ \cup {id}] ELSE dhcpDb
                      /\ dproc' = [dproc EXCEPT ![p].pc = "rbm_server", ![p].result = "DBError", ![p].by = store, ![p].failed = 6]
    /\ UNCHANGED <<netLocks, nsxBackend, nativeDhcp, calls>>

\* plugin.py:1211 inside save_and_reraise_exception
RollbackMappingDeleteServer(p) ==
    /\ dproc[p].pc = "rbm_server"
    /\ \E backend \in Outcomes({"ManagerError"}) :
          /\ Fault(backend)
          /\ IF backend = "ok"
             THEN /\ nsxBackend' = [nsxBackend EXCEPT !.servers = @ \ {dproc[p].subnet}]
                  /\ Goto(p, "rbm_port")
             ELSE /\ Leave(p, backend, "dhcp_server.delete", dproc[p].failed)
                  /\ UNCHANGED nsxBackend
    /\ UNCHANGED <<dhcpDb, netLocks, nativeDhcp, calls>>

\* plugin.py:1212 with _cleanup_port (1271-1276), then the saved exception
\* is raised again
RollbackMappingCleanupPort(p) ==
    /\ dproc[p].pc = "rbm_port"
    /\ LET id == dproc[p].subnet
       IN  \E call \in Outcomes({"delete_port", "logical_port.delete"}) :
              /\ Fault(call)
              /\ IF call = "delete_port"
                 THEN Leave(p, "DBError", call, dproc[p].failed) /\ UNCHANGED <<dhcpDb, nsxBackend>>
                 ELSE /\ dhcpDb' = [dhcpDb EXCEPT !.ports = @ \ {id}, !.port_mappings = @ \ {id}]
                      /\ IF call = "ok"
                         THEN /\ nsxBackend' = [nsxBackend EXCEPT !.lports = @ \ {id}]
                              /\ Leave(p, dproc[p].result, dproc[p].by, dproc[p].failed)
                         ELSE /\ Leave(p, "ManagerError", call, dproc[p].failed)
                              /\ UNCHANGED nsxBackend
    /\ UNCHANGED <<netLocks, nativeDhcp, calls>>

\* plugin.py:1214-1220 without the "except Exception" at 1218: the exception
\* of _add_dhcp_binding leaves _enable_native_dhcp
EnableAddBindingsFatal(p) ==
    /\ dproc[p].pc = "en_bind"
    /\ \E store \in Outcomes({"_add_dhcp_binding"}) :
          /\ Fault(store)
          /\ dhcpDb' = IF store = "ok" THEN [dhcpDb EXCEPT !.bindings = @ \cup {dproc[p].subnet}] ELSE dhcpDb
          /\ IF store = "ok" THEN Leave(p, "ok", "none", 0) ELSE Leave(p, "DBError", store, 7)
    /\ UNCHANGED <<netLocks, nsxBackend, nativeDhcp, calls>>

\* plugin.py:1214-1220, step 7: an exception is logged and dropped
EnableAddBindings(p) ==
    /\ dproc[p].pc = "en_bind"
    /\ \E store \in Outcomes({"_add_dhcp_binding"}) :
          /\ Fault(store)
          /\ dhcpDb' = IF store = "ok" THEN [dhcpDb EXCEPT !.bindings = @ \cup {dproc[p].subnet}] ELSE dhcpDb
    /\ Leave(p, "ok", "none", 0)
    /\ UNCHANGED <<netLocks, nsxBackend, nativeDhcp, calls>>

\* plugin.py:1445-1453 and 1467: without native DHCP, or for a subnet with
\* DHCP off, the row is deleted; else the lock of the network comes next
DeleteSubnetStart(p) ==
    /\ dproc[p].pc = "idle"
    /\ calls < MaxCalls
    /\ calls' = calls + 1
    /\ \E subnet \in dhcpDb.subnets :
          IF nativeDhcp /\ subnet.enable_dhcp
          THEN /\ dproc' = [dproc EXCEPT ![p] = [IdleProc EXCEPT !.pc = "ds_lock", !.op = "delete", !.net = subnet.net, !.subnet = subnet.id]]
               /\ UNCHANGED dhcpDb
          ELSE /\ dhcpDb' = [dhcpDb EXCEPT !.subnets = @ \ {subnet}]
               /\ UNCHANGED dproc
    /\ UNCHANGED <<netLocks, nsxBackend, nativeDhcp, faults>>

\* plugin.py:1454: with locking.LockManager.get_lock(lock)
DeleteSubnetLock(p) ==
    /\ dproc[p].pc = "ds_lock"
    /\ LockFree(netLocks, LockName(dproc[p].net))
    /\ netLocks' = [netLocks EXCEPT ![LockName(dproc[p].net)] = p]
    /\ Goto(p, "ds_check")
    /\ UNCHANGED <<dhcpDb, nsxBackend, nativeDhcp, calls, faults>>

\* plugin.py:1456-1459: the last DHCP-enabled subnet disables native DHCP;
\* else the body of the lock ends and the row is deleted outside of it
DeleteSubnetCheck(p) ==
    /\ dproc[p].pc = "ds_check"
    /\ IF HasSingleDhcpEnabledSubnet(dhcpDb.subnets, dproc[p].net)
       THEN dproc' = [dproc EXCEPT ![p].pc = "dis_start", ![p].ret = "ds_delete"] /\ UNCHANGED netLocks
       ELSE Goto(p, "ds_outside") /\ netLocks' = [netLocks EXCEPT ![LockName(dproc[p].net)] = 0]
    /\ UNCHANGED <<dhcpDb, nsxBackend, nativeDhcp, calls, faults>>

\* plugin.py:1464-1466: the row is deleted inside the lock
DeleteSubnetRow(p) ==
    /\ dproc[p].pc = "ds_delete"
    /\ dhcpDb' = [dhcpDb EXCEPT !.subnets = {s \in @ : s.id # dproc[p].subnet}]
    /\ Leave(p, "ok", dproc[p].by, 0)
    /\ UNCHANGED <<netLocks, nsxBackend, nativeDhcp, calls, faults>>

\* plugin.py:1467
DeleteSubnetOutside(p) ==
    /\ dproc[p].pc = "ds_outside"
    /\ dhcpDb' = [dhcpDb EXCEPT !.subnets = {s \in @ : s.id # dproc[p].subnet}]
    /\ dproc' = [dproc EXCEPT ![p] = IdleProc]
    /\ UNCHANGED <<netLocks, nsxBackend, nativeDhcp, calls, faults>>

\* a lock released by a call at the end of the body (plugin.py:1384-1429,
\* 1454-1466) instead of by the with statement: an exception keeps it
UnlockOnReturnOnly(p) ==
    /\ dproc[p].pc = "unlock"
    /\ netLocks' = IF dproc[p].result = "ok" THEN [netLocks EXCEPT ![LockName(dproc[p].net)] = 0] ELSE netLocks
    /\ dproc' = [dproc EXCEPT ![p] = IdleProc]
    /\ UNCHANGED <<dhcpDb, nsxBackend, nativeDhcp, calls, faults>>

\* the end of the with block (plugin.py:1384, 1454): the lock is released
\* on return and on exception, and the call returns to its caller
Unlock(p) ==
    /\ dproc[p].pc = "unlock"
    /\ netLocks' = [netLocks EXCEPT ![LockName(dproc[p].net)] = 0]
    /\ dproc' = [dproc EXCEPT ![p] = IdleProc]
    /\ UNCHANGED <<dhcpDb, nsxBackend, nativeDhcp, calls, faults>>

(***************************************************************************)
(* Claims on native DHCP provisioning.                                     *)
(***************************************************************************)
\* worker p is inside an enable or disable sequence, from the check of the
\* DHCP-enabled subnets of the network to the end of the body of the lock
InSequence(p) == dproc[p].pc \in {"cs_check", "ds_check", "dis_start", "dis_port", "dis_server", "dis_rows", "en_port", "en_server", "en_lport", "rb_server", "rb_port", "en_map", "rbm_server", "rbm_port", "en_bind", "ds_delete", "unlock"}

\* C3: when one of steps 3-6 of _enable_native_dhcp has failed and the call
\* has returned with the error, the store holds no DHCP service binding row
\* of the network and the backend holds no DHCP server of that attempt.
C3_FailedEnableLeavesNoServer ==
    \A p \in DhcpProcs :
        (dproc[p].pc = "unlock" /\ dproc[p].failed \in 3..6) =>
            /\ dhcpDb.service[dproc[p].net] = NoService
            /\ dproc[p].subnet \notin nsxBackend.servers

\* C4: a worker inside an enable or disable sequence of a network holds the
\* lock 'nsxv3_network_' + network id from the check of the subnets to the
\* last call, so no two workers are inside a sequence of the same network
\* at the same time.
C4_OneSequencePerNetwork ==
    /\ \A p \in DhcpProcs : InSequence(p) => netLocks[LockName(dproc[p].net)] = p
    /\ \A p, q \in DhcpProcs : (p # q /\ InSequence(p) /\ InSequence(q)) => dproc[p].net # dproc[q].net

\* sequences of two different networks run at the same time: one worker is
\* at a backend call of an enable, the other at a backend call of a disable
C4_Witness ==
    \E p, q \in DhcpProcs :
        /\ dproc[p].pc = "en_lport" /\ dproc[q].pc = "dis_server"
        /\ dproc[p].net # dproc[q].net
        /\ \E r \in DhcpProcs : netLocks[LockName(dproc[p].net)] = r

\* the DHCP-enabled subnets of network n in the store
DhcpEnabledSubnets(n) == {s \in dhcpDb.subnets : s.net = n /\ s.enable_dhcp}

\* worker p leaves the check of _create_subnet (plugin.py:1387-1429) in
\* this step
ChecksCreation(p) == dproc[p].pc = "cs_check" /\ dproc'[p].pc # "cs_check"

\* C23: with native DHCP, in every state reached by creations and deletions
\* of subnets a network has at most one DHCP-enabled subnet, and the creation
\* of a DHCP-enabled subnet on a network that has one already ends with the
\* validation error InvalidInput and adds no subnet row.
C23_AtMostOneDhcpSubnet ==
    /\ [](nativeDhcp => \A n \in Nets : Cardinality(DhcpEnabledSubnets(n)) <= 1)
    /\ [][\A p \in DhcpProcs : (ChecksCreation(p) /\ DhcpEnabledSubnets(dproc[p].net) # {}) =>
              /\ dproc'[p].pc = "unlock" /\ dproc'[p].result = "InvalidInput"
              /\ dhcpDb'.subnets = dhcpDb.subnets]_vars

\* a creation on a network that supports native DHCP and has a DHCP-enabled
\* subnet has been refused
C23_Witness ==
    \E p \in DhcpProcs :
        /\ dproc[p].pc = "unlock" /\ dproc[p].op = "create" /\ dproc[p].ddi
        /\ dproc[p].result = "InvalidInput" /\ dproc[p].by = "_create_subnet"
        /\ \E s \in DhcpEnabledSubnets(dproc[p].net) : s.id # dproc[p].subnet

\* worker p has run an enable or disable sequence to its end (on return or
\* on exception) and is about to release the lock of the network, so no
\* sequence of that network is in progress
SequenceEnded(p) == dproc[p].pc = "unlock" /\ dproc[p].ret # "none"

\* C24: with native DHCP, when the enable or disable sequence of a creation
\* or deletion has ended (failed backend and store calls included) and none
\* is in progress, the network has a DHCP service binding row exactly when it
\* has a DHCP-enabled subnet.
C24_ServiceRowIffDhcpSubnet ==
    \A p \in DhcpProcs :
        SequenceEnded(p) =>
            (dhcpDb.service[dproc[p].net] # NoService <=> DhcpEnabledSubnets(dproc[p].net) # {})

\* the _create_subnet of worker p has returned with the error of the step
\* `failed` of _enable_native_dhcp or of its handler
EnableFailedAt(p, steps) == dproc[p].pc = "unlock" /\ dproc[p].op = "create" /\ dproc[p].failed \in steps

\* C25: when dhcp_server.create (step 4) or logical_port.create (step 5) has
\* failed and the error has left _enable_native_dhcp, the local DHCP port of
\* the attempt and the DHCP server the attempt created are deleted, and the
\* network has no DHCP service binding row.  A call whose delete_port was
\* refused by the store is left out: its port cannot be deleted.
C25_BackendFailureRollsBack ==
    \A p \in DhcpProcs :
        (EnableFailedAt(p, {4, 5}) /\ dproc[p].by # "delete_port") =>
            /\ dproc[p].subnet \notin dhcpDb.ports
            /\ dproc[p].subnet \notin nsxBackend.servers
            /\ dhcpDb.service[dproc[p].net] = NoService

\* C26: when writing the port mapping row or the service binding row (step
\* 6) has failed and the error has left _enable_native_dhcp, the DHCP server,
\* the logical port and the local DHCP port of the attempt are deleted and no
\* row of the attempt remains.  A call whose _cleanup_port was refused by the
\* store or the backend is left out.
C26_MappingFailureRollsBack ==
    \A p \in DhcpProcs :
        (EnableFailedAt(p, {6}) /\ dproc[p].by \notin {"delete_port", "logical_port.delete"}) =>
            /\ dproc[p].subnet \notin nsxBackend.servers
            /\ dproc[p].subnet \notin nsxBackend.lports
            /\ dproc[p].subnet \notin dhcpDb.ports
            /\ dproc[p].subnet \notin dhcpDb.port_mappings
            /\ dhcpDb.service[dproc[p].net] = NoService

\* the calls of steps 4 to 6 of _enable_native_dhcp (plugin.py:1176-1205)
SagaStepCalls == {"dhcp_server.create", "logical_port.create", "add_neutron_nsx_port_mapping", "add_neutron_nsx_service_binding"}

\* C27: when step 4, 5 or 6 of _enable_native_dhcp has failed, the error that
\* reaches the caller is the error of that step also when a compensating
\* call of the handler fails, and after the compensating dhcp_server.delete
\* the handler always goes on to delete the port.
C27_CompensationFailureKeepsOriginalError ==
    /\ [](\A p \in DhcpProcs : EnableFailedAt(p, {4, 5, 6}) => dproc[p].by \in SagaStepCalls)
    /\ [][\A p \in DhcpProcs :
              /\ (dproc[p].pc = "rb_server" /\ dproc'[p].pc # "rb_server") => dproc'[p].pc = "rb_port"
              /\ (dproc[p].pc = "rbm_server" /\ dproc'[p].pc # "rbm_server") => dproc'[p].pc = "rbm_port"]_vars

\* C28: when a call made inside _create_subnet or delete_subnet has raised
\* (dproc[p].by names it), the operation returns to its caller with an
\* error; a failure of _add_dhcp_binding in step 7 is the one exception and
\* is not recorded in by.
C28_FailuresReachCaller ==
    \A p \in DhcpProcs :
        (dproc[p].pc = "unlock" /\ dproc[p].by # "none") => dproc[p].result # "ok"

\* the DHCP service binding row of the network of worker p
ServiceOf(p) == dhcpDb.service[dproc[p].net]

\* dhcp_server.delete has raised in the _disable_native_dhcp of worker p
\* and the error has left it, to _enable_native_dhcp or to delete_subnet
ServerDeleteFailed(p) == dproc[p].by = "dhcp_server.delete" /\ ((dproc[p].pc = "unlock" /\ dproc[p].failed = 1) \/ dproc[p].pc = "ds_delete")

\* C29: when dhcp_server.delete fails in _disable_native_dhcp the error
\* leaves the function and the DHCP service binding row of the network is
\* still there, and a later _disable_native_dhcp on a network left like that
\* (row present, server on the backend, the DHCP port and its logical port
\* deleted by the failed call) gets to the deletion of the server again.
C29_FailedServerDeleteCanBeRetried ==
    /\ [](\A p \in DhcpProcs : ServerDeleteFailed(p) => ServiceOf(p) # NoService)
    /\ [][\A p \in DhcpProcs :
              (/\ dproc[p].pc = "dis_port" /\ dproc'[p].pc # "dis_port"
               /\ ServiceOf(p).port_id \notin dhcpDb.ports
               /\ ServiceOf(p).port_id \notin nsxBackend.lports
               /\ ServiceOf(p).nsx_service_id \in nsxBackend.servers) => dproc'[p].pc = "dis_server"]_vars

\* the _create_subnet of worker p has run _enable_native_dhcp and returned
\* without an error
EnableReturned(p) == dproc[p].pc = "unlock" /\ dproc[p].op = "create" /\ dproc[p].ret = "en_port" /\ dproc[p].result = "ok"

\* the DHCP server, the logical port, the local DHCP port and both mapping
\* rows of the attempt of worker p are in place
EnabledFor(p) ==
    /\ dproc[p].subnet \in nsxBackend.servers
    /\ dproc[p].subnet \in nsxBackend.lports
    /\ dproc[p].subnet \in dhcpDb.ports
    /\ dproc[p].subnet \in dhcpDb.port_mappings
    /\ dhcpDb.service[dproc[p].net] = [port_id |-> dproc[p].subnet, nsx_service_id |-> dproc[p].subnet]

\* C35: step 7 of _enable_native_dhcp always ends the call without an
\* error, also when adding a DHCP binding fails; it leaves the DHCP server,
\* the logical port, the local DHCP port and both mapping rows in place, and
\* a failure only leaves the DHCP bindings of the existing ports out.
C35_BindingFailureIsNotFatal ==
    /\ [](\A p \in DhcpProcs : (dproc[p].pc = "en_bind" \/ EnableReturned(p)) => EnabledFor(p))
    /\ [][\A p \in DhcpProcs :
              (dproc[p].pc = "en_bind" /\ dproc'[p].pc # "en_bind") =>
                  /\ dproc'[p].pc = "unlock" /\ dproc'[p].result = "ok"
                  /\ nsxBackend' = nsxBackend
                  /\ [dhcpDb' EXCEPT !.bindings = {}] = [dhcpDb EXCEPT !.bindings = {}]
                  /\ dhcpDb'.bindings \in {dhcpDb.bindings, dhcpDb.bindings \cup {dproc[p].subnet}}]_vars

\* adding the DHCP bindings has failed and the call has returned normally
\* with native DHCP enabled for the network
C35_Witness ==
    \E p \in DhcpProcs :
        /\ EnableReturned(p) /\ EnabledFor(p)
        /\ faults > 0 /\ dproc[p].subnet \notin dhcpDb.bindings

\* worker p runs _disable_native_dhcp for delete_subnet
DisablesForDelete(p) == dproc[p].pc \in {"dis_start", "dis_port", "dis_server", "dis_rows"} /\ dproc[p].ret = "ds_delete"

\* the subnet row that the delete_subnet of worker p is to remove
RowOf(p) == [net |-> dproc[p].net, id |-> dproc[p].subnet, enable_dhcp |-> TRUE]

\* the subnet that worker p deletes is the only DHCP-enabled subnet of its
\* network
IsLastDhcpSubnet(p) == {row \in dhcpDb.subnets : row.net = dproc[p].net /\ row.enable_dhcp} = {RowOf(p)}

\* this step changes nothing of native DHCP: no service binding, DHCP port,
\* mapping or binding row of the store and no object of the backend
DhcpUntouched == [dhcpDb' EXCEPT !.subnets = {}] = [dhcpDb EXCEPT !.subnets = {}] /\ nsxBackend' = nsxBackend

\* C36: with native DHCP, delete_subnet of the only DHCP-enabled subnet of
\* a network runs _disable_native_dhcp holding the lock of the network
\* while the subnet row is still there, and removes the row after it; a
\* delete_subnet of a subnet with DHCP off, or of one that is not the only
\* DHCP-enabled subnet, removes the row and never runs Disable.  Stated for
\* the runs in which no store or backend call fails.
C36_LastDhcpSubnetDisablesBeforeDelete ==
    /\ [](\A p \in DhcpProcs : (faults = 0 /\ DisablesForDelete(p)) => netLocks[LockName(dproc[p].net)] = p /\ RowOf(p) \in dhcpDb.subnets)
    /\ [][\A p \in DhcpProcs : faults' = 0 =>
              /\ (dproc[p].pc = "ds_check" /\ dproc'[p].pc # "ds_check") =>
                     IF IsLastDhcpSubnet(p)
                     THEN DisablesForDelete(p)' /\ dhcpDb' = dhcpDb
                     ELSE dproc'[p].pc = "ds_outside" /\ dhcpDb' = dhcpDb
              /\ (dproc[p].pc = "ds_outside" /\ dproc'[p].pc # "ds_outside") =>
                     /\ dproc'[p].pc = "idle" /\ RowOf(p) \notin dhcpDb'.subnets /\ DhcpUntouched
              /\ (dproc[p].op = "delete" /\ dproc'[p] # dproc[p] /\ RowOf(p) \in dhcpDb.subnets /\ RowOf(p) \notin dhcpDb'.subnets) =>
                     \/ dproc[p].pc = "ds_outside"
                     \/ dproc[p].pc = "ds_delete" /\ dproc[p].ret = "ds_delete" /\ netLocks[LockName(dproc[p].net)] = p /\ DhcpUntouched
              /\ (dproc' = dproc /\ dhcpDb'.subnets # dhcpDb.subnets /\ dhcpDb'.subnets \subseteq dhcpDb.subnets) =>
                     /\ \A row \in dhcpDb.subnets \ dhcpDb'.subnets : ~(nativeDhcp /\ row.enable_dhcp)
                     /\ DhcpUntouched]_vars

\* worker p is inside _disable_native_dhcp
DisableRuns(p) == dproc[p].pc \in {"dis_start", "dis_port", "dis_server", "dis_rows"}

\* a run of _disable_native_dhcp on network n finds no service binding, or
\* the DHCP port of the binding already deleted
NothingToDisable(n) == dhcpDb.service[n] = NoService \/ dhcpDb.service[n].port_id \notin dhcpDb.ports

WaitsForLock(p) == dproc[p].pc \in {"cs_lock", "ds_lock"}

\* worker p is inside the body of the with statement of its call
InLockBody(p) == dproc[p].pc \notin {"idle", "cs_lock", "ds_lock", "ds_outside"}

\* C38: a worker holds the lock of a network only inside the body of the
\* with statement of its call, and the step that leaves the body, by return
\* or by exception, releases the lock; under fair scheduling and returning
\* calls the calls that have started all end and leave every lock free, so
\* no worker keeps a lock and none waits for one forever: a worker that
\* waits for the lock gets it and goes on to the end of its call.
C38_LockReleasedOnEveryExit ==
    /\ [](\A p \in DhcpProcs : \A n \in Nets : netLocks[LockName(n)] = p => InLockBody(p) /\ dproc[p].net = n)
    /\ [][\A p \in DhcpProcs : (InLockBody(p) /\ ~InLockBody(p)') => netLocks'[LockName(dproc[p].net)] # p]_vars
    /\ <>[](\A p \in DhcpProcs : dproc[p].pc = "idle" /\ \A n \in Nets : netLocks[LockName(n)] # p)

\* a worker waits for the lock of a network that another worker holds at
\* the end of a call that has failed
C38_Witness ==
    \E p, q \in DhcpProcs :
        /\ WaitsForLock(p) /\ dproc[q].net = dproc[p].net
        /\ dproc[q].pc = "unlock" /\ dproc[q].result \notin {"ok", "none"}
        /\ netLocks[LockName(dproc[q].net)] = q

(***************************************************************************)
(* Housekeeper job for orphaned firewall sections                          *)
(* (vmware_nsx/plugins/nsx_v3/housekeeper/orphaned_firewall_section.py).   *)
(* hkSections holds the ids of the firewall sections on the backend whose  *)
(* security group is gone.  hkRun records the last run of the job: the     *)
(* list it got from get_orphaned_firewall_sections, the ids it called      *)
(* firewall_section.delete with (in order), the ids for which that call    *)
(* raised, and the counts of the dictionary it returned.                   *)
(***************************************************************************)
MaxSections == 3

Sections == 1..MaxSections

NoRun == [ran |-> FALSE, readonly |-> FALSE, orphaned_sections |-> <<>>, deletes |-> <<>>, raised |-> {}, removed |-> {}, error_count |-> 0, fixed_count |-> 0]

\* v3_utils.get_orphaned_firewall_sections (orphaned_firewall_section.py:
\* 44-45): the orphaned sections as a list, here by ascending id
RECURSIVE SectionList(_)
SectionList(sections) ==
    IF sections = {} THEN <<>>
    ELSE LET first == CHOOSE s \in sections : \A t \in sections : s <= t
         IN  <<first>> \o SectionList(sections \ {first})

\* orphaned_firewall_section.py:58-73 with a loop that ends at the first
\* delete that fails
RECURSIVE DeleteSectionsUntilFailure(_, _, _, _)
DeleteSectionsUntilFailure(orphaned_sections, readonly, failing, run) ==
    IF orphaned_sections = <<>> THEN run
    ELSE LET section == Head(orphaned_sections)
         IN  IF readonly
             THEN DeleteSectionsUntilFailure(Tail(orphaned_sections), readonly, failing, run)
             ELSE IF section \in failing
             THEN [run EXCEPT !.deletes = Append(@, section), !.raised = @ \cup {section}]
             ELSE DeleteSectionsUntilFailure(Tail(orphaned_sections), readonly, failing,
                                             [run EXCEPT !.deletes = Append(@, section), !.removed = @ \cup {section}, !.fixed_count = @ + 1])

\* orphaned_firewall_section.py:58-73: the loop over the orphaned sections;
\* firewall_section.delete raises for the sections in failing
RECURSIVE DeleteSections(_, _, _, _)
DeleteSections(orphaned_sections, readonly, failing, run) ==
    IF orphaned_sections = <<>> THEN run
    ELSE LET section == Head(orphaned_sections)
         IN  IF readonly
             THEN DeleteSections(Tail(orphaned_sections), readonly, failing, run)
             ELSE IF section \in failing
             THEN DeleteSections(Tail(orphaned_sections), readonly, failing,
                                 [run EXCEPT !.deletes = Append(@, section), !.raised = @ \cup {section}])
             ELSE DeleteSections(Tail(orphaned_sections), readonly, failing,
                                 [run EXCEPT !.deletes = Append(@, section), !.removed = @ \cup {section}, !.fixed_count = @ + 1])

IdleHk ==
    /\ hkSections = {}
    /\ hkRun = NoRun

\* no orphaned section and no run of the job yet
InitHk == IdleHk

\* a security group goes away and leaves its firewall section on the backend
SectionOrphaned ==
    /\ \E section \in Sections \ hkSections : hkSections' = hkSections \cup {section}
    /\ UNCHANGED hkRun

\* OrphanedFirewallSectionJob.run (orphaned_firewall_section.py:40-77)
OrphanedFirewallSectionJobRun ==
    \E readonly \in BOOLEAN, failing \in SUBSET hkSections :
        LET orphaned_sections == SectionList(hkSections)
            start == [NoRun EXCEPT !.ran = TRUE, !.readonly = readonly, !.orphaned_sections = orphaned_sections]
            run == DeleteSections(orphaned_sections, readonly, failing, start)
        IN  IF orphaned_sections = <<>>
            THEN /\ hkRun' = [start EXCEPT !.error_count = 0, !.fixed_count = 0]
                 /\ UNCHANGED hkSections
            ELSE /\ hkRun' = [run EXCEPT !.error_count = Len(orphaned_sections)]
                 /\ hkSections' = hkSections \ run.removed

(***************************************************************************)
(* Claims on the housekeeper job.                                          *)
(***************************************************************************)
\* the ids in a list
IdsOf(list) == {list[i] : i \in 1..Len(list)}

\* C39: a readonly run of OrphanedFirewallSectionJob calls no delete and
\* reports fixed_count 0; a run that is not readonly calls delete once for
\* every orphaned section, in the order of the list and whatever the
\* earlier deletes did, and its fixed_count is the number of deletes that
\* returned; error_count is the number of orphaned sections found; a
\* section leaves the backend only by a delete that returned.
C39_HousekeeperCounts ==
    /\ [](hkRun.ran =>
             /\ hkRun.error_count = Len(hkRun.orphaned_sections)
             /\ hkRun.readonly => hkRun.deletes = <<>> /\ hkRun.fixed_count = 0
             /\ ~hkRun.readonly =>
                    /\ hkRun.deletes = hkRun.orphaned_sections
                    /\ hkRun.raised \subseteq IdsOf(hkRun.deletes)
                    /\ hkRun.fixed_count = Len(hkRun.deletes) - Cardinality(hkRun.raised))
    /\ [][hkSections \ hkSections' # {} =>
              /\ hkRun'.ran /\ ~hkRun'.readonly
              /\ hkRun'.orphaned_sections = SectionList(hkSections)
              /\ hkSections \ hkSections' = IdsOf(hkRun'.deletes) \ hkRun'.raised]_vars

\* a run that is not readonly has gone on after a delete that failed: the
\* first delete raised and a later one returned
C39_Witness ==
    /\ hkRun.ran /\ ~hkRun.readonly
    /\ Len(hkRun.orphaned_sections) >= 2
    /\ hkRun.orphaned_sections[1] \in hkRun.raised
    /\ hkRun.fixed_count >= 1
    /\ hkRun.error_count = Len(hkRun.orphaned_sections)

(***************************************************************************)
(* The quantum API client (quantum/client.py).  client holds the format    *)
(* and the tenant of a Client object; clCall records the last call of one  *)
(* of its api_call methods: format and tenant before the call, the         *)
(* keyword arguments of the call, and how it ended.                        *)
(***************************************************************************)
Formats == {"xml", "json"}

Tenants == {None, "t1", "t2"}

\* the keyword arguments of a call that api_call looks at
KwargsChoices == {kw \in [keys : SUBSET {"format", "tenant"}, format : Formats, tenant : Tenants] :
                     /\ "format" \notin kw.keys => kw.format = "xml"
                     /\ "tenant" \notin kw.keys => kw.tenant = None}

NoCall == [called |-> FALSE, before |-> [format |-> "xml", tenant |-> None], kwargs |-> [keys |-> {}, format |-> "xml", tenant |-> None], outcome |-> "none"]

\* Client.do_request (client.py:92-145): an exception without a tenant, on a
\* status code other than 2xx and on a connection error, else the response
DoRequest(self, response) ==
    IF ~Truthy(self.tenant) THEN "Exception: Tenant ID not set"
    ELSE IF response = "2xx" THEN "ok"
    ELSE IF response = "error status" THEN "Exception: Server returned error"
    ELSE "Exception: Unable to connect to server"

\* api_call.__get__, with_params (client.py:30-41) around a method that does
\* one do_request: the instance after the call and how the call ended.  An
\* exception of self.f leaves with_params at line 39, before line 40
WithParams(instance, kwargs, response) ==
    LET backup == instance
        changed == [format |-> IF "format" \in kwargs.keys THEN kwargs.format ELSE instance.format,
                    tenant |-> IF "tenant" \in kwargs.keys THEN kwargs.tenant ELSE instance.tenant]
        ret == DoRequest(changed, response)
    IN  IF ret = "ok"
        THEN [instance |-> backup, outcome |-> ret]
        ELSE [instance |-> changed, outcome |-> ret]

IdleClient ==
    /\ client = [format |-> "xml", tenant |-> None]
    /\ clCall = NoCall

\* Client.__init__ (client.py:57-79)
InitClient ==
    /\ client \in [format : Formats, tenant : Tenants]
    /\ clCall = NoCall

\* a call of an api_call method (client.py:171-267)
ApiCall ==
    \E kwargs \in KwargsChoices, response \in {"2xx", "error status", "socket.error"} :
        LET done == WithParams(client, kwargs, response)
        IN  /\ client' = done.instance
            /\ clCall' = [called |-> TRUE, before |-> client, kwargs |-> kwargs, outcome |-> done.outcome]

(***************************************************************************)
(* Claims on the API client.                                               *)
(***************************************************************************)
\* C40: after a call of an api_call method with a format or tenant
\* override, whether it returned or raised, the format and the tenant of
\* the client are what they were before the call.
C40_OverrideNeverLeaks == (clCall.called /\ clCall.kwargs.keys # {}) => client = clCall.before

(***************************************************************************)
(* Specifications                                                          *)
(***************************************************************************)
NextGw == UpdateRouterGw /\ UNCHANGED <<netVars, portVars, dhcpVars, hkVars, clVars>>

InitSpecGw == InitGw /\ IdleNet /\ IdlePort /\ IdleDhcp /\ IdleHk /\ IdleClient

SpecGw == InitSpecGw /\ [][NextGw]_vars

\* gateway update validation
NextGwCheck == ValidateRouterGwCall /\ UNCHANGED <<netVars, portVars, dhcpVars, hkVars, clVars>>

SpecGwCheck == InitSpecGw /\ [][NextGwCheck]_vars

NextGwUpdate == ValidateUpdateRouterGwCall /\ UNCHANGED <<netVars, portVars, dhcpVars, hkVars, clVars>>

SpecGwUpdate == InitSpecGw /\ [][NextGwUpdate]_vars

\* provider network creation, one call at a time, over every request
NextNet ==
    \/ BeginCreateNetwork(1, NetRequests) /\ UNCHANGED <<gwVars, portVars, dhcpVars, hkVars, clVars>>
    \/ CommitCreateNetwork(1) /\ UNCHANGED <<gwVars, portVars, dhcpVars, hkVars, clVars>>
    \/ ReturnNetworkError(1) /\ UNCHANGED <<gwVars, portVars, dhcpVars, hkVars, clVars>>

InitSpecNet == InitNet /\ InitGw /\ IdlePort /\ IdleDhcp /\ IdleHk /\ IdleClient

SpecNet == InitSpecNet /\ [][NextNet]_vars

\* concurrent creation of VLAN networks
NextNetConc ==
    \/ \E p \in NetProcs : BeginCreateNetwork(p, VlanRequests) /\ UNCHANGED <<gwVars, portVars, dhcpVars, hkVars, clVars>>
    \/ \E p \in NetProcs : CommitCreateNetwork(p) /\ UNCHANGED <<gwVars, portVars, dhcpVars, hkVars, clVars>>
    \/ \E p \in NetProcs : ReturnNetworkError(p) /\ UNCHANGED <<gwVars, portVars, dhcpVars, hkVars, clVars>>

SpecNetConc == InitSpecNet /\ [][NextNetConc]_vars

\* VLAN network creation, one call at a time, on a store that already holds
\* VLAN networks of the default VLAN zone with distinct tags
NextSeg ==
    \/ BeginCreateNetwork(1, VlanRequests) /\ UNCHANGED <<gwVars, portVars, dhcpVars, hkVars, clVars>>
    \/ CommitCreateNetwork(1) /\ UNCHANGED <<gwVars, portVars, dhcpVars, hkVars, clVars>>
    \/ ReturnNetworkError(1) /\ UNCHANGED <<gwVars, portVars, dhcpVars, hkVars, clVars>>

InitSpecSeg ==
    /\ netVlans \in [{default_vlan_tz_uuid} -> VlanRangeChoices]
    /\ ensAllowed \in BOOLEAN
    /\ overlayTzMode = "STANDARD"
    /\ \E tags \in SUBSET (MIN_VLAN_TAG .. MAX_VLAN_TAG) :
          bindings = {[network_id |-> -t, binding_type |-> "vlan", phy_uuid |-> default_vlan_tz_uuid, vlan_id |-> t] : t \in tags}
    /\ netCount = 0
    /\ segLocks = {}
    /\ npc = [p \in NetProcs |-> "idle"]
    /\ nreq = [p \in NetProcs |-> NoRequest]
    /\ nres = [p \in NetProcs |-> NoResult]
    /\ InitGw /\ IdlePort /\ IdleDhcp /\ IdleHk /\ IdleClient

SpecSeg == InitSpecSeg /\ [][NextSeg]_vars

NextPort == \/ CreatePort(SecCreateRequests) /\ UNCHANGED <<gwVars, netVars, dhcpVars, hkVars, clVars>>
            \/ UpdatePort(SecUpdateRequests) /\ UNCHANGED <<gwVars, netVars, dhcpVars, hkVars, clVars>>
            \/ RevertPortUpdate /\ UNCHANGED <<gwVars, netVars, dhcpVars, hkVars, clVars>>
            \/ ReturnPortResult /\ UNCHANGED <<gwVars, netVars, dhcpVars, hkVars, clVars>>

InitSpecPort == InitPort(SecEnvs) /\ InitGw /\ IdleNet /\ IdleDhcp /\ IdleHk /\ IdleClient

SpecPort == InitSpecPort /\ [][NextPort]_vars

NextPortOwner == \/ CreatePort(OwnerCreateRequests) /\ UNCHANGED <<gwVars, netVars, dhcpVars, hkVars, clVars>>
                 \/ UpdatePort(OwnerUpdateRequests) /\ UNCHANGED <<gwVars, netVars, dhcpVars, hkVars, clVars>>
                 \/ RevertPortUpdate /\ UNCHANGED <<gwVars, netVars, dhcpVars, hkVars, clVars>>
                 \/ ReturnPortResult /\ UNCHANGED <<gwVars, netVars, dhcpVars, hkVars, clVars>>

InitSpecPortOwner == InitPort(OwnerEnvs) /\ InitGw /\ IdleNet /\ IdleDhcp /\ IdleHk /\ IdleClient

SpecPortOwner == InitSpecPortOwner /\ [][NextPortOwner]_vars

NextDhcp ==
    \/ \E p \in DhcpProcs : CreateSubnetStart(p) /\ UNCHANGED <<gwVars, netVars, portVars, hkVars, clVars>>
    \/ \E p \in DhcpProcs : CreateSubnetLock(p) /\ UNCHANGED <<gwVars, netVars, portVars, hkVars, clVars>>
    \/ \E p \in DhcpProcs : CreateSubnetCheck(p) /\ UNCHANGED <<gwVars, netVars, portVars, hkVars, clVars>>
    \/ \E p \in DhcpProcs : DisableStart(p) /\ UNCHANGED <<gwVars, netVars, portVars, hkVars, clVars>>
    \/ \E p \in DhcpProcs : DisableCleanupPort(p) /\ UNCHANGED <<gwVars, netVars, portVars, hkVars, clVars>>
    \/ \E p \in DhcpProcs : DisableDeleteServer(p) /\ UNCHANGED <<gwVars, netVars, portVars, hkVars, clVars>>
    \/ \E p \in DhcpProcs : DisableDeleteRows(p) /\ UNCHANGED <<gwVars, netVars, portVars, hkVars, clVars>>
    \/ \E p \in DhcpProcs : EnableCreatePort(p) /\ UNCHANGED <<gwVars, netVars, portVars, hkVars, clVars>>
    \/ \E p \in DhcpProcs : EnableCreateServer(p) /\ UNCHANGED <<gwVars, netVars, portVars, hkVars, clVars>>
    \/ \E p \in DhcpProcs : EnableCreateLogicalPort(p) /\ UNCHANGED <<gwVars, netVars, portVars, hkVars, clVars>>
    \/ \E p \in DhcpProcs : RollbackDeleteServer(p) /\ UNCHANGED <<gwVars, netVars, portVars, hkVars, clVars>>
    \/ \E p \in DhcpProcs : RollbackDeletePort(p) /\ UNCHANGED <<gwVars, netVars, portVars, hkVars, clVars>>
    \/ \E p \in DhcpProcs : EnablePersistMappings(p) /\ UNCHANGED <<gwVars, netVars, portVars, hkVars, clVars>>
    \/ \E p \in DhcpProcs : RollbackMappingDeleteServer(p) /\ UNCHANGED <<gwVars, netVars, portVars, hkVars, clVars>>
    \/ \E p \in DhcpProcs : RollbackMappingCleanupPort(p) /\ UNCHANGED <<gwVars, netVars, portVars, hkVars, clVars>>
    \/ \E p \in DhcpProcs : EnableAddBindings(p) /\ UNCHANGED <<gwVars, netVars, portVars, hkVars, clVars>>
    \/ \E p \in DhcpProcs : DeleteSubnetStart(p) /\ UNCHANGED <<gwVars, netVars, portVars, hkVars, clVars>>
    \/ \E p \in DhcpProcs : DeleteSubnetLock(p) /\ UNCHANGED <<gwVars, netVars, portVars, hkVars, clVars>>
    \/ \E p \in DhcpProcs : DeleteSubnetCheck(p) /\ UNCHANGED <<gwVars, netVars, portVars, hkVars, clVars>>
    \/ \E p \in DhcpProcs : DeleteSubnetRow(p) /\ UNCHANGED <<gwVars, netVars, portVars, hkVars, clVars>>
    \/ \E p \in DhcpProcs : DeleteSubnetOutside(p) /\ UNCHANGED <<gwVars, netVars, portVars, hkVars, clVars>>
    \/ \E p \in DhcpProcs : Unlock(p) /\ UNCHANGED <<gwVars, netVars, portVars, hkVars, clVars>>

InitSpecDhcp == InitDhcp /\ InitGw /\ IdleNet /\ IdlePort /\ IdleHk /\ IdleClient

SpecDhcp == InitSpecDhcp /\ [][NextDhcp]_vars

\* a step of the call of worker p that has started: taking the lock, a
\* step inside the body of the lock, or the end of the body
DhcpStep(p) ==
    \/ CreateSubnetLock(p) \/ CreateSubnetCheck(p)
    \/ DisableStart(p) \/ DisableCleanupPort(p) \/ DisableDeleteServer(p) \/ DisableDeleteRows(p)
    \/ EnableCreatePort(p) \/ EnableCreateServer(p) \/ EnableCreateLogicalPort(p)
    \/ RollbackDeleteServer(p) \/ RollbackDeletePort(p)
    \/ EnablePersistMappings(p) \/ RollbackMappingDeleteServer(p) \/ RollbackMappingCleanupPort(p)
    \/ EnableAddBindings(p)
    \/ DeleteSubnetLock(p) \/ DeleteSubnetCheck(p) \/ DeleteSubnetRow(p) \/ DeleteSubnetOutside(p)
    \/ Unlock(p)

\* every worker is scheduled again and again, every store and backend call
\* returns or raises, and get_lock returns once the lock stays free
FairDhcp == \A p \in DhcpProcs : WF_vars(DhcpStep(p) /\ UNCHANGED <<gwVars, netVars, portVars, hkVars, clVars>>)

SpecDhcpFair == InitSpecDhcp /\ [][NextDhcp]_vars /\ FairDhcp

\* native DHCP calls that run while a delete_subnet waits for the lock
InitSpecDhcpDeleting == InitDhcpDeleting /\ InitGw /\ IdleNet /\ IdlePort /\ IdleHk /\ IdleClient

SpecDhcpDeleting == InitSpecDhcpDeleting /\ [][NextDhcp]_vars

\* runs of the housekeeper job while sections get orphaned
NextHk == \/ SectionOrphaned /\ UNCHANGED <<gwVars, netVars, portVars, dhcpVars, clVars>>
          \/ OrphanedFirewallSectionJobRun /\ UNCHANGED <<gwVars, netVars, portVars, dhcpVars, clVars>>

InitSpecHk == InitHk /\ InitGw /\ IdleNet /\ IdlePort /\ IdleDhcp /\ IdleClient

SpecHk == InitSpecHk /\ [][NextHk]_vars

\* calls of the api_call methods of one client
NextClient == ApiCall /\ UNCHANGED <<gwVars, netVars, portVars, dhcpVars, hkVars>>

InitSpecClient == InitClient /\ InitGw /\ IdleNet /\ IdlePort /\ IdleDhcp /\ IdleHk

SpecClient == InitSpecClient /\ [][NextClient]_vars

====
